---- MODULE Spec2Model ----
(***************************************************************************)
(* A model of the vscode-iwyu extension (src/src/extension.ts): the        *)
(* per-file IWYU data and invocation controller, the report parser, the    *)
(* diagnostics scanner with its include-guard checks, and the guard        *)
(* quick fix.                                                              *)
(*                                                                         *)
(* Text is modelled as text: a line is a string, a document a non-empty    *)
(* sequence of lines (vscode.TextDocument.lineAt / lineCount).  The        *)
(* regular expressions of the source are matchers over the characters of a *)
(* line.                                                                   *)
(***************************************************************************)
EXTENDS Integers, Sequences, FiniteSets, TLC

VARIABLES
    now,              \* Date.now(), in milliseconds
    config,           \* the "iwyu" settings read through configData.config
    iwyuData,         \* CompileCommand.iwyuData of every file of the index
    pending,          \* analyzer processes started by exec, not yet completed
    waiting,          \* refreshes whose until() poll is re-armed by setTimeout
    docs,             \* the text of the open documents
    iwyuDiagnostics,  \* the published DiagnosticCollection, per document
    last,             \* what the handler that ran last did (history)
    phase,            \* position of the scanner/quick-fix scenario
    fileSystem,       \* the compile_commands.json files on disk, by path
    compileCommandsData,  \* ConfigData.compileCommandsData: the index
    errors,           \* compileCommandsError* and the messages shown to the user
    call,             \* the last call of a pure function: its input and result
    replaced          \* the entries of the indexes replaced while analyzers ran

vars ==
    <<now, config, iwyuData, pending, waiting, docs, iwyuDiagnostics, last, phase,
      fileSystem, compileCommandsData, errors, call, replaced>>

----------------------------------------------------------------------------
(* vscode.WorkspaceConfiguration.get(key, default) of the "iwyu" section:  *)
(* the settings that are set are the domain of cfg.                        *)

get(cfg, key, default) == IF key \in DOMAIN cfg THEN cfg[key] ELSE default

----------------------------------------------------------------------------
(* Strings. *)

Max(a, b) == IF a >= b THEN a ELSE b

Min(a, b) == IF a <= b THEN a ELSE b

\* s[i - 1] of JavaScript (i is 1-based here); "" outside the string.
Ch(s, i) == IF i >= 1 /\ i <= Len(s) THEN SubSeq(s, i, i) ELSE ""

\* s.substring(i - 1)
From(s, i) == IF i > Len(s) THEN "" ELSE SubSeq(s, Max(i, 1), Len(s))

\* s.startsWith(lit, i - 1)
StartsWithAt(s, i, lit) ==
    /\ i >= 1
    /\ i + Len(lit) - 1 <= Len(s)
    /\ SubSeq(s, i, i + Len(lit) - 1) = lit

\* s.indexOf(lit) + 1: the 1-based position of the first occurrence, 0 when none.
RECURSIVE IndexOfFrom(_, _, _)
IndexOfFrom(s, lit, i) ==
    IF i + Len(lit) - 1 > Len(s) THEN 0
    ELSE IF StartsWithAt(s, i, lit) THEN i
    ELSE IndexOfFrom(s, lit, i + 1)

\* An indexOf that finds every string at the start.
C32_AtStart(s, lit) == 1

IndexOf(s, lit) == IndexOfFrom(s, lit, 1)

LowerLetters ==
    <<"a", "b", "c", "d", "e", "f", "g", "h", "i", "j", "k", "l", "m",
      "n", "o", "p", "q", "r", "s", "t", "u", "v", "w", "x", "y", "z">>

UpperLetters ==
    <<"A", "B", "C", "D", "E", "F", "G", "H", "I", "J", "K", "L", "M",
      "N", "O", "P", "Q", "R", "S", "T", "U", "V", "W", "X", "Y", "Z">>

Digits == {"0", "1", "2", "3", "4", "5", "6", "7", "8", "9"}

Range(f) == {f[i] : i \in DOMAIN f}

\* \s of the regular expressions (space and tab of the lines modelled).
IsSpace(c) == c \in {" ", "\t"}

\* [_a-zA-Z]
IsIdStart(c) == c = "_" \/ c \in Range(LowerLetters) \/ c \in Range(UpperLetters)

\* [_a-zA-Z0-9]
IsIdChar(c) == IsIdStart(c) \/ c \in Digits

\* The position of the first character at or after i that is not white space.
RECURSIVE SkipWs(_, _)
SkipWs(s, i) == IF IsSpace(Ch(s, i)) THEN SkipWs(s, i + 1) ELSE i

\* The position of the first character at or after i that is no identifier character.
RECURSIVE SkipId(_, _)
SkipId(s, i) == IF IsIdChar(Ch(s, i)) THEN SkipId(s, i + 1) ELSE i

\* The position of the first occurrence of character c at or after i, 0 when none.
RECURSIVE FindCh(_, _, _)
FindCh(s, c, i) ==
    IF i > Len(s) THEN 0
    ELSE IF Ch(s, i) = c THEN i
    ELSE FindCh(s, c, i + 1)

----------------------------------------------------------------------------
(* The regular expressions, src/src/extension.ts:30-34.  A match is a      *)
(* record: m tells whether the line matches, g1..g3 are the groups ("" for *)
(* a group that did not take part), e is the position after the match.     *)

NoMatch == [m |-> FALSE, g1 |-> "", g2 |-> "", g3 |-> "", e |-> 0]

\* /^(\s*#\s*WORD)(?:\s+)([_a-zA-Z][_a-zA-Z0-9]*)(\s.*)?$/
GuardDirectiveRe(word, s) ==
    LET hash  == SkipWs(s, 1)
        w     == SkipWs(s, hash + 1)
        sep   == w + Len(word)
        id    == SkipWs(s, sep)
        after == SkipId(s, id)
    IN  IF /\ Ch(s, hash) = "#"
           /\ StartsWithAt(s, w, word)
           /\ IsSpace(Ch(s, sep))
           /\ IsIdStart(Ch(s, id))
           /\ (after > Len(s) \/ IsSpace(Ch(s, after)))
        THEN [m |-> TRUE,
              g1 |-> SubSeq(s, 1, sep - 1),
              g2 |-> SubSeq(s, id, after - 1),
              g3 |-> From(s, after),
              e |-> Len(s) + 1]
        ELSE NoMatch

INC_GUARD_IFNDEF(s) == GuardDirectiveRe("ifndef", s)

INC_GUARD_DEFINE(s) == GuardDirectiveRe("define", s)

\* /^(\s*#\s*endif)(?:\s+\/\/\s+([_a-zA-Z][_a-zA-Z0-9]*)(\s.*)?)?$/
INC_GUARD_ENDIF(s) ==
    LET hash  == SkipWs(s, 1)
        w     == SkipWs(s, hash + 1)
        sep   == w + Len("endif")
        sl    == SkipWs(s, sep)
        sep2  == sl + 2
        id    == SkipWs(s, sep2)
        after == SkipId(s, id)
    IN  IF ~(Ch(s, hash) = "#" /\ StartsWithAt(s, w, "endif")) THEN NoMatch
        ELSE IF sep > Len(s)
        THEN [m |-> TRUE, g1 |-> s, g2 |-> "", g3 |-> "", e |-> Len(s) + 1]
        ELSE IF /\ IsSpace(Ch(s, sep))
                /\ StartsWithAt(s, sl, "//")
                /\ IsSpace(Ch(s, sep2))
                /\ IsIdStart(Ch(s, id))
                /\ (after > Len(s) \/ IsSpace(Ch(s, after)))
        THEN [m |-> TRUE,
              g1 |-> SubSeq(s, 1, sep - 1),
              g2 |-> SubSeq(s, id, after - 1),
              g3 |-> From(s, after),
              e |-> Len(s) + 1]
        ELSE NoMatch

\* /^\s*#\s*pragma\s+once(\s*(\/\/.*))?$/
PRAGMA_ONCE(s) ==
    LET hash == SkipWs(s, 1)
        w    == SkipWs(s, hash + 1)
        sep  == w + Len("pragma")
        o    == SkipWs(s, sep)
        rest == o + Len("once")
        sl   == SkipWs(s, rest)
    IN  /\ Ch(s, hash) = "#"
        /\ StartsWithAt(s, w, "pragma")
        /\ IsSpace(Ch(s, sep))
        /\ StartsWithAt(s, o, "once")
        /\ (rest > Len(s) \/ StartsWithAt(s, sl, "//"))

\* /^\s*#\s*include\s+(<[^>]*>|"[^"]*")/ : g1 is the include, e.g. <a> or "a.h"
INCLUDE_RE(s) ==
    LET hash  == SkipWs(s, 1)
        w     == SkipWs(s, hash + 1)
        sep   == w + Len("include")
        open  == SkipWs(s, sep)
        close == IF Ch(s, open) = "<" THEN FindCh(s, ">", open + 1)
                 ELSE IF Ch(s, open) = "\"" THEN FindCh(s, "\"", open + 1)
                 ELSE 0
    IN  IF /\ Ch(s, hash) = "#"
           /\ StartsWithAt(s, w, "include")
           /\ IsSpace(Ch(s, sep))
           /\ close > 0
        THEN [m |-> TRUE, g1 |-> SubSeq(s, open, close), g2 |-> "", g3 |-> "",
              e |-> close + 1]
        ELSE NoMatch

\* TextLine.isEmptyOrWhitespace
isEmptyOrWhitespace(s) == SkipWs(s, 1) > Len(s)

\* TextLine.firstNonWhitespaceCharacterIndex, 1-based (Len + 1 for a blank line)
firstNonWhitespaceCharacterIndex(s) == SkipWs(s, 1)

----------------------------------------------------------------------------
(* ConfigData.getIncludeGuard, src/src/extension.ts:368-383. *)

\* String.prototype.toUpperCase of one character.
ToUpperCh(c) ==
    IF \E i \in DOMAIN LowerLetters : LowerLetters[i] = c
    THEN UpperLetters[CHOOSE i \in DOMAIN LowerLetters : LowerLetters[i] = c]
    ELSE c

RECURSIVE toUpperCaseFrom(_, _)
toUpperCaseFrom(s, i) ==
    IF i > Len(s) THEN "" ELSE ToUpperCh(Ch(s, i)) \o toUpperCaseFrom(s, i + 1)

toUpperCase(s) == toUpperCaseFrom(s, 1)

\* One character of fileName.replace(/[^_a-zA-Z0-9]/g, "_")
SanitizeCh(c) == IF IsIdChar(c) THEN c ELSE "_"

RECURSIVE SanitizeFrom(_, _)
SanitizeFrom(s, i) ==
    IF i > Len(s) THEN "" ELSE SanitizeCh(Ch(s, i)) \o SanitizeFrom(s, i + 1)

\* String.prototype.replace(pattern, replacement) with a string pattern: the
\* first occurrence only.  (The replacements used hold no "$".)
replace(s, pattern, replacement) ==
    LET p == IndexOf(s, pattern)
    IN  IF p = 0 THEN s
        ELSE SubSeq(s, 1, p - 1) \o replacement \o From(s, p + Len(pattern))

getIncludeGuard(guard, fileName, directory) ==
    IF guard = "" THEN ""
    ELSE LET f1 == IF StartsWithAt(fileName, 1, directory)
                   THEN From(fileName, Len(directory) + 1)
                   ELSE fileName
             f2 == IF StartsWithAt(f1, 1, "/") THEN From(f1, 2) ELSE f1
             f3 == SanitizeFrom(f2, 1)
         IN  replace(replace(guard, "${file}", f3), "${FILE}", toUpperCase(f3))

\* A header pattern that every file name matches.
C24_AnyFile(headerRe, fileName) == headerRe # ""

\* headerRe.test(doc.fileName) for the default "[.](h|hh|hpp|hxx)$",
\* src/src/extension.ts:181-182, 638-639; null (no pattern) never matches.
EndsWith(s, suffix) ==
    Len(s) >= Len(suffix) /\ SubSeq(s, Len(s) - Len(suffix) + 1, Len(s)) = suffix

headerMatch(headerRe, fileName) ==
    /\ headerRe # ""
    /\ \E suffix \in {".h", ".hh", ".hpp", ".hxx"} : EndsWith(fileName, suffix)


----------------------------------------------------------------------------
(* class IwyuData, src/src/extension.ts:60-115.  A text is held as the     *)
(* sequence of its lines, text.split("\n"): the empty text is <<"">>.      *)

EmptyText == <<"">>

\* new IwyuData at time t
NewIwyuData(t) ==
    [output |-> EmptyText, updateTime |-> t, running |-> 0,
     includesToAdd |-> <<>>, includesToRemove |-> <<>>, includesList |-> <<>>]

\* match ? match[1] : "" and match ? match[2] : "" of a match record
Group1(match) == IF match.m THEN match.g1 ELSE ""

Group2(match) == IF match.m THEN match.g2 ELSE ""

\* The end of the forEach callback of update (lines 95-120): the line is added
\* under its include to the list of the mode.
UpdateInfo(acc, line, include) ==
    IF include = "" THEN acc
    ELSE IF acc.mode = "add" THEN [acc EXCEPT !.add = Append(@, [include |-> include, line |-> line])]
    ELSE IF acc.mode = "remove" THEN [acc EXCEPT !.remove = Append(@, [include |-> include, line |-> line])]
    ELSE IF acc.mode = "list" THEN [acc EXCEPT !.list = Append(@, [include |-> include, line |-> line])]
    ELSE acc

\* A callback that takes the whole line for the include.
C34_WholeLine(acc, line) == UpdateInfo(acc, line, line)

UpdateInclude(acc, line) == UpdateInfo(acc, line, Group1(INCLUDE_RE(line)))

\* A callback for which a blank line leaves the section open.
C33_BlankKeepsSection(acc, lineIn, fileName, enableDiagnostics) ==
    IF lineIn = fileName \o " should add these lines:" THEN [acc EXCEPT !.mode = "add"]
    ELSE IF lineIn = fileName \o " should remove these lines:" THEN [acc EXCEPT !.mode = "remove"]
    ELSE IF lineIn = "The full include-list for " \o fileName \o ":" THEN [acc EXCEPT !.mode = "list"]
    ELSE IF acc.mode = "remove" /\ (~enableDiagnostics \/ ~StartsWithAt(lineIn, 1, "- ")) THEN acc
    ELSE UpdateInclude(acc, IF acc.mode = "remove" THEN From(lineIn, 3) ELSE lineIn)

\* The body of the forEach callback of update: acc holds mode and the three lists.
UpdateLine(acc, lineIn, fileName, enableDiagnostics) ==
    IF lineIn = fileName \o " should add these lines:" THEN [acc EXCEPT !.mode = "add"]
    ELSE IF lineIn = fileName \o " should remove these lines:" THEN [acc EXCEPT !.mode = "remove"]
    ELSE IF lineIn = "The full include-list for " \o fileName \o ":" THEN [acc EXCEPT !.mode = "list"]
    ELSE IF lineIn = "" THEN [acc EXCEPT !.mode = "unused"]
    ELSE IF acc.mode = "remove" /\ (~enableDiagnostics \/ ~StartsWithAt(lineIn, 1, "- ")) THEN acc
    ELSE UpdateInclude(acc, IF acc.mode = "remove" THEN From(lineIn, 3) ELSE lineIn)

RECURSIVE UpdateLines(_, _, _, _, _)
UpdateLines(acc, output, i, fileName, enableDiagnostics) ==
    IF i > Len(output) THEN acc
    ELSE UpdateLines(UpdateLine(acc, output[i], fileName, enableDiagnostics),
                     output, i + 1, fileName, enableDiagnostics)

\* The fields when update adds what it reads to the lists it finds.
C11_Merged(data, output, t, acc) ==
    [data EXCEPT !.output = output,
                 !.updateTime = t,
                 !.includesToAdd = @ \o acc.add,
                 !.includesToRemove = @ \o acc.remove,
                 !.includesList = @ \o acc.list]

\* The fields when update replaces includesToRemove only by a list that is not
\* empty.
C21_PartlyApplied(data, output, t, acc) ==
    [data EXCEPT !.output = output,
                 !.updateTime = t,
                 !.includesToAdd = acc.add,
                 !.includesToRemove = IF acc.remove = <<>> THEN @ ELSE acc.remove,
                 !.includesList = acc.list]

\* The fields of the IWYU data once the lines of the output are read into acc:
\* the three lists are reset before the lines are read (lines 71-73).
Updated(data, output, t, acc) ==
    [data EXCEPT !.output = output,
                 !.updateTime = t,
                 !.includesToAdd = acc.add,
                 !.includesToRemove = acc.remove,
                 !.includesList = acc.list]

\* IwyuData.update(output, fileName, enableDiagnostics) at time t
update(data, output, fileName, enableDiagnostics, t) ==
    Updated(data, output, t,
            UpdateLines([mode |-> "unused", add |-> <<>>, remove |-> <<>>, list |-> <<>>],
                        output, 1, fileName, enableDiagnostics))

----------------------------------------------------------------------------
(* parseCommandLine, src/src/extension.ts:195-236.  Positions are 1-based: *)
(* i is the source's i + 1 and start its start + 1.                        *)

\* The position the loop goes on with when a backslash takes the next character as it is.
C12_BackslashKept(i) == i + 1

\* case "\\": i++ (line 228) and the ++i of the loop.
AfterBackslash(i) == i + 2

\* case " " (lines 214-220): the token that ends before the space, if any.
ParseSpace(cmd, i, st) ==
    [st EXCEPT !.args = IF st.start < i THEN Append(@, SubSeq(cmd, st.start, i - 1)) ELSE @,
               !.start = i + 1]

\* The loop of lines 200-231 from position i on, and lines 232-235.
RECURSIVE ParseFrom(_, _, _)
ParseFrom(cmd, i, st) ==
    IF i > Len(cmd)
    THEN IF st.start <= Len(cmd) THEN Append(st.args, From(cmd, st.start)) ELSE st.args
    ELSE IF st.single THEN ParseFrom(cmd, i + 1, [st EXCEPT !.single = (Ch(cmd, i) # "'")])
    ELSE IF st.double THEN ParseFrom(cmd, i + 1, [st EXCEPT !.double = (Ch(cmd, i) # "\"")])
    ELSE IF Ch(cmd, i) = " " THEN ParseFrom(cmd, i + 1, ParseSpace(cmd, i, st))
    ELSE IF Ch(cmd, i) = "'" THEN ParseFrom(cmd, i + 1, [st EXCEPT !.single = TRUE])
    ELSE IF Ch(cmd, i) = "\"" THEN ParseFrom(cmd, i + 1, [st EXCEPT !.double = TRUE])
    ELSE IF Ch(cmd, i) = "\\" THEN ParseFrom(cmd, AfterBackslash(i), st)
    ELSE ParseFrom(cmd, i + 1, st)

parseCommandLine(cmd) ==
    ParseFrom(cmd, 1, [single |-> FALSE, double |-> FALSE, start |-> 1, args |-> <<>>])

----------------------------------------------------------------------------
(* Diagnostics, src/src/extension.ts:23-28, 586-629. *)

IWYU_DIAGNISTIC_UNUSED_HEADER == "iwyu_unused_header"
IWYU_DIAGNISTIC_INCLUDE_GUARD_BAD_IFNDEF == "iwyu_include_guard_bad_ifndef"
IWYU_DIAGNISTIC_INCLUDE_GUARD_BAD_DEFINE == "iwyu_include_guard_bad_define"
IWYU_DIAGNISTIC_INCLUDE_GUARD_BAD_ENDIF == "iwyu_include_guard_bad_endif"
IWYU_DIAGNISTIC_INCLUDE_GUARD_MISSING_IFNDEF == "iwyu_include_guard_missing_ifndef"
IWYU_DIAGNISTIC_INCLUDE_GUARD_MISSING_ENDIF == "iwyu_include_guard_missing_endif"

GuardSources ==
    {IWYU_DIAGNISTIC_INCLUDE_GUARD_BAD_IFNDEF, IWYU_DIAGNISTIC_INCLUDE_GUARD_BAD_DEFINE,
     IWYU_DIAGNISTIC_INCLUDE_GUARD_BAD_ENDIF, IWYU_DIAGNISTIC_INCLUDE_GUARD_MISSING_IFNDEF,
     IWYU_DIAGNISTIC_INCLUDE_GUARD_MISSING_ENDIF}

\* createDiagnostic: range (line, col)..(line, col + len); related holds the lines of
\* relatedInformation.
createDiagnostic(line, col, len, source) ==
    [line |-> line, col |-> col, end |-> col + len, source |-> source, related |-> <<>>]

\* addIncludeGuardRef for a line of the document.  doc.lineAt(includeGuardLine)
\* throws for a line outside the document: see ScanLine.
addIncludeGuardRef(diagnostic, includeGuardLine) ==
    [diagnostic EXCEPT !.related = <<includeGuardLine>>]

\* TextDocument.lineAt(line) throws "Illegal value for `line`" outside 0..lineCount-1.
lineAtThrows(doc, line) == line < 0 \/ line >= Len(doc)

----------------------------------------------------------------------------
(* Extension.iwyuDiagnosticsScan, src/src/extension.ts:631-762.  Lines are *)
(* numbered from 0 as in the source; doc[line + 1] is doc.lineAt(line).    *)

\* The last 10 lines are searched for the closing #endif.
EndifWindow == 10

\* includesToRemove.findIndex(v => v.include === include), 0-based, -1 when none
RECURSIVE findIndex(_, _, _)
findIndex(includesToRemove, include, i) ==
    IF i > Len(includesToRemove) THEN -1
    ELSE IF includesToRemove[i].include = include THEN i - 1
    ELSE findIndex(includesToRemove, include, i + 1)

\* The include part of one loop iteration (lines 694-729) for the include of the
\* line: the window end and the diagnostics pushed.
ScanIncluded(c, st, line, text, include) ==
    LET scanMax == IF include # "" /\ Len(c.includesToRemove) > 0 /\ line >= c.scanMin
                   THEN Max(line + 1 + c.scanMore, st.scanMax)
                   ELSE st.scanMax
        unusedIndex == findIndex(c.includesToRemove, include, 1)
        unusedInclude == IF unusedIndex < 0 THEN ""
                         ELSE c.includesToRemove[unusedIndex + 1].include
        start == IndexOf(text, unusedInclude) - 1
        hash  == IndexOf(text, "#") - 1
        diag  == IF c.fullLine
                 THEN createDiagnostic(line, 0, Len(text), IWYU_DIAGNISTIC_UNUSED_HEADER)
                 ELSE createDiagnostic(line, hash, Len(unusedInclude) + start - hash,
                                       IWYU_DIAGNISTIC_UNUSED_HEADER)
        found == /\ include # ""
                 /\ Len(c.includesToRemove) > 0
                 /\ unusedIndex >= 0
                 /\ unusedInclude # ""
                 /\ start >= 0
    IN  [st EXCEPT !.scanMax = scanMax,
                   !.diagnostics = IF found THEN Append(@, diag) ELSE @]

ScanInclude(c, st, line, text) == ScanIncluded(c, st, line, text, Group1(INCLUDE_RE(text)))

\* The include-guard part of one loop iteration (lines 667-693) for the guard of
\* an #ifndef on the line, whether the line is #pragma once, and the guard of a
\* #define on the line.
ScanGuarded(c, st, line, text, doc, guard, pragmaOnce, defGuard) ==
    LET open   == st.includeGuardLine = -1
        opened == open /\ guard # ""
        once   == open /\ pragmaOnce
        includeGuardLine == IF opened \/ once THEN line ELSE st.includeGuardLine
        pragmaOnceLine   == IF once THEN line ELSE st.pragmaOnceLine
        d1 == IF opened /\ guard # c.expectedIncludeGuard
              THEN <<createDiagnostic(line, 0, Len(text),
                                      IWYU_DIAGNISTIC_INCLUDE_GUARD_BAD_IFNDEF)>>
              ELSE <<>>
        badDefine == /\ pragmaOnceLine = -1
                     /\ line = includeGuardLine + 1
                     /\ defGuard # c.expectedIncludeGuard
        threw == badDefine /\ lineAtThrows(doc, includeGuardLine)
        d2 == IF badDefine /\ ~threw
              THEN <<addIncludeGuardRef(
                        createDiagnostic(line, 0, Len(text),
                                         IWYU_DIAGNISTIC_INCLUDE_GUARD_BAD_DEFINE),
                        includeGuardLine)>>
              ELSE <<>>
    IN  [st EXCEPT !.includeGuardLine = includeGuardLine,
                   !.pragmaOnceLine = pragmaOnceLine,
                   !.diagnostics = @ \o d1 \o d2,
                   !.threw = threw]

ScanGuard(c, st, line, text, doc) ==
    IF ~c.checkIncludeGuard THEN st
    ELSE ScanGuarded(c, st, line, text, doc, Group2(INC_GUARD_IFNDEF(text)),
                     PRAGMA_ONCE(text), Group2(INC_GUARD_DEFINE(text)))

\* The rest of an iteration once the guard part has run: an exception ends the
\* scan.
ScanAfterGuard(c, st, line, text) ==
    IF st.threw THEN st ELSE ScanInclude(c, st, line, text)

\* A loop that treats every line as one of the first scan_min lines, so that
\* blank lines extend the window wherever they are.
C31_WhileExtending(c, line) == TRUE

\* A loop that treats every line as one of the first scan_min lines.
C10_AnyLine(c, line) == line < c.scanMin \/ line >= c.scanMin

\* The test of line 650: the line is one of the first scan_min lines.
InScanMin(c, line) == line < c.scanMin

\* A loop for which no line starts with #.
C29_NoDirective(text, p) == FALSE

\* The test of line 661: the first non-whitespace character of the line is #.
StartsDirective(text, p) == Ch(text, p) = "#"

\* The end of the window after an iteration, for the history of the scan.
WindowNoted(st) == [st EXCEPT !.windows = Append(@, st.scanMax)]

\* One iteration of the forward loop (lines 645-730) at line with its text; p is
\* firstNonWhitespaceCharacterIndex and empty is isEmptyOrWhitespace.
ScanText(c, st, doc, line, text, p, empty) ==
    LET inMin == InScanMin(c, line)
        skip == inMin /\ (empty \/ StartsWithAt(text, p, "//"))
        more == inMin /\ (skip \/ StartsDirective(text, p))
        st1  == [st EXCEPT !.line = line + 1,
                           !.scanMax = IF more THEN @ + 1 ELSE @,
                           !.inspected = @ \cup {line},
                           !.visited = Append(@, line)]
        st2  == IF skip THEN st1
                ELSE ScanAfterGuard(c, ScanGuard(c, st1, line, text, doc), line, text)
    IN  WindowNoted(st2)

ScanLine(c, st, doc) ==
    ScanText(c, st, doc, st.line, doc[st.line + 1],
             firstNonWhitespaceCharacterIndex(doc[st.line + 1]),
             isEmptyOrWhitespace(doc[st.line + 1]))

RECURSIVE ForwardScan(_, _, _)
ForwardScan(c, st, doc) ==
    IF st.threw \/ ~(st.line < st.scanMax /\ st.line < Len(doc)) THEN st
    ELSE ForwardScan(c, ScanLine(c, st, doc), doc)

\* A backward pass that looks at the last line only.
C28_LastLineOnly(c, doc, line, includeGuardLine) ==
    IF line > 0 /\ INC_GUARD_ENDIF(doc[line + 1]).m
    THEN IF INC_GUARD_ENDIF(doc[line + 1]).g2 # c.expectedIncludeGuard
         THEN <<addIncludeGuardRef(
                   createDiagnostic(line, 0, Len(doc[line + 1]),
                                    IWYU_DIAGNISTIC_INCLUDE_GUARD_BAD_ENDIF),
                   includeGuardLine)>>
         ELSE <<>>
    ELSE <<createDiagnostic(Len(doc) - 1, 0, Len(doc[Len(doc)]),
                            IWYU_DIAGNISTIC_INCLUDE_GUARD_MISSING_ENDIF)>>

\* The backward loop for the closing #endif (lines 735-758): the diagnostics pushed.
RECURSIVE BackwardScan(_, _, _, _)
BackwardScan(c, doc, line, includeGuardLine) ==
    LET lastLine == Len(doc) - 1 IN
    IF ~(line > 0 /\ line > lastLine - EndifWindow)
    THEN <<createDiagnostic(lastLine, 0, Len(doc[lastLine + 1]),
                            IWYU_DIAGNISTIC_INCLUDE_GUARD_MISSING_ENDIF)>>
    ELSE LET text  == doc[line + 1]
             match == INC_GUARD_ENDIF(text)
         IN  IF ~match.m THEN BackwardScan(c, doc, line - 1, includeGuardLine)
             ELSE IF match.g2 # c.expectedIncludeGuard
             THEN <<addIncludeGuardRef(
                       createDiagnostic(line, 0, Len(text),
                                        IWYU_DIAGNISTIC_INCLUDE_GUARD_BAD_ENDIF),
                       includeGuardLine)>>
             ELSE <<>>

\* The guard diagnostics pushed after the forward loop (lines 731-760);
\* firstLineLength is the length of line 0 when the loop has read it, else 0.
ScanEnd(c, st, doc) ==
    IF ~c.checkIncludeGuard THEN <<>>
    ELSE IF st.includeGuardLine = -1
    THEN <<createDiagnostic(0, 0, IF 0 \in st.inspected THEN Len(doc[1]) ELSE 0,
                            IWYU_DIAGNISTIC_INCLUDE_GUARD_MISSING_IFNDEF)>>
    ELSE BackwardScan(c, doc, Len(doc) - 1, st.includeGuardLine)

\* The settings and data one scan reads (lines 632-640).
ScanContext(cfg, data, fileName, directory) ==
    LET expectedIncludeGuard ==
            getIncludeGuard(get(cfg, "diagnostics.include_guard", ""), fileName, directory)
    IN  [includesToRemove |-> data.includesToRemove,
         scanMin |-> get(cfg, "diagnostics.scan_min", 100),
         scanMore |-> get(cfg, "diagnostics.scan_more", 10),
         fullLine |-> get(cfg, "diagnostics.full_line_squiggles", TRUE),
         expectedIncludeGuard |-> expectedIncludeGuard,
         checkIncludeGuard |->
            /\ expectedIncludeGuard # ""
            /\ headerMatch(get(cfg, "diagnostics.include_guard_files", "[.](h|hh|hpp|hxx)$"),
                           fileName)]

\* The state of the scan before the forward loop (lines 641-644); visited and
\* windows are the line and the value of scanMax of each iteration made.
ScanStart(c) ==
    [line |-> 0, scanMax |-> c.scanMin, includeGuardLine |-> -1,
     pragmaOnceLine |-> -1, diagnostics |-> <<>>, threw |-> FALSE, inspected |-> {},
     visited |-> <<>>, windows |-> <<>>]

\* The outcome of a scan whose forward loop ended in st: threw tells that the scan
\* ended by an exception, before iwyuDiagnostics.set; otherwise diagnostics is the
\* list that is set.
ScanOutcome(c, st, doc) ==
    [threw |-> st.threw,
     diagnostics |-> IF st.threw THEN <<>> ELSE st.diagnostics \o ScanEnd(c, st, doc),
     inspected |-> st.inspected,
     visited |-> st.visited,
     windows |-> st.windows,
     scanMax |-> st.scanMax,
     includeGuardLine |-> st.includeGuardLine,
     pragmaOnceLine |-> st.pragmaOnceLine]

ScanWith(c, doc) == ScanOutcome(c, ForwardScan(c, ScanStart(c), doc), doc)

iwyuDiagnosticsScan(cfg, data, fileName, directory, doc) ==
    ScanWith(ScanContext(cfg, data, fileName, directory), doc)


----------------------------------------------------------------------------
(* class IwyuQuickFix, src/src/extension.ts:821-911.  A text edit is       *)
(* [line, col, endCol, text]: the characters col..endCol of one line are   *)
(* replaced by text, a sequence of lines (the text split at eol), so an    *)
(* insert has col = endCol.                                                *)

TextEditInsert(line, col, text) == [line |-> line, col |-> col, end |-> col, text |-> text]

TextEditReplace(line, col, end, text) == [line |-> line, col |-> col, end |-> end, text |-> text]

\* fixIncludeGuard(doc, diagnostic, regexp, missing, type, separator, addDefine)
\* with the match of regexp on the diagnostic's line and the expected guard given:
\* the edits of action.edit, in the order in which they are pushed.
fixIncludeGuard(doc, diagnostic, guard, missing, type, separator, addDefine, expected) ==
    LET line     == diagnostic.line
        text     == doc[line + 1]
        lastLine == Len(doc)
        endif    == IF addDefine
                    THEN <<TextEditInsert(lastLine, 0, <<"", "#endif  // " \o expected, "">>)>>
                    ELSE <<>>
        first    == IF guard.m THEN guard.g1 \o separator \o expected \o guard.g3
                    ELSE type \o separator \o expected
        newText  == IF addDefine THEN <<first, "#define " \o expected>> ELSE <<first>>
        isMissing == IF guard.m THEN FALSE ELSE missing
    IN  endif \o
        <<IF isMissing THEN TextEditInsert(line, 0, newText \o <<"">>)
          ELSE TextEditReplace(line, 0, Len(text), newText)>>

\* createCommandCodeAction for the five include-guard diagnostics (lines 862-871).
createCommandCodeAction(doc, diagnostic, expected) ==
    LET text == doc[diagnostic.line + 1] IN
    CASE diagnostic.source = IWYU_DIAGNISTIC_INCLUDE_GUARD_BAD_DEFINE ->
            fixIncludeGuard(doc, diagnostic, INC_GUARD_DEFINE(text), FALSE, "#define", " ", FALSE, expected)
      [] diagnostic.source = IWYU_DIAGNISTIC_INCLUDE_GUARD_BAD_ENDIF ->
            fixIncludeGuard(doc, diagnostic, INC_GUARD_ENDIF(text), FALSE, "#endif", "  // ", FALSE, expected)
      [] diagnostic.source = IWYU_DIAGNISTIC_INCLUDE_GUARD_BAD_IFNDEF ->
            fixIncludeGuard(doc, diagnostic, INC_GUARD_IFNDEF(text), FALSE, "#ifndef", " ", FALSE, expected)
      [] diagnostic.source = IWYU_DIAGNISTIC_INCLUDE_GUARD_MISSING_ENDIF ->
            fixIncludeGuard(doc, diagnostic, INC_GUARD_ENDIF(text), TRUE, "#endif", "  // ", FALSE, expected)
      [] diagnostic.source = IWYU_DIAGNISTIC_INCLUDE_GUARD_MISSING_IFNDEF ->
            fixIncludeGuard(doc, diagnostic, INC_GUARD_IFNDEF(text), TRUE, "#ifndef", " ", TRUE, expected)
      [] OTHER -> <<>>

\* Position.isBeforeOrEqual: positions are compared by line, then by character.
isBeforeOrEqual(line, col, otherLine, otherCol) ==
    line < otherLine \/ (line = otherLine /\ col <= otherCol)

\* range.contains(diagnostic.range) for a range [line, col, endLine, endCol]; the
\* range of a diagnostic is on one line.
contains(range, diagnostic) ==
    /\ isBeforeOrEqual(range.line, range.col, diagnostic.line, diagnostic.col)
    /\ isBeforeOrEqual(diagnostic.line, diagnostic.end, range.endLine, range.endCol)

\* A filter that offers the action of an unused include for every selection.
C22_AlwaysOffered(diagnostic, range) ==
    diagnostic.source \in GuardSources \cup {IWYU_DIAGNISTIC_UNUSED_HEADER}

\* IwyuQuickFix.filterDiagnostics, lines 838-850.
filterDiagnostics(diagnostic, range) ==
    IF diagnostic.source = IWYU_DIAGNISTIC_UNUSED_HEADER THEN contains(range, diagnostic)
    ELSE diagnostic.source \in GuardSources

\* The code action createCommandCodeAction makes of diagnostic i of
\* context.diagnostics (lines 853-873, 876-877): its title and
\* action.diagnostics; its edits are those of createCommandCodeAction above.
CodeAction(diagnostics, i) ==
    [title |-> IF diagnostics[i].source \in GuardSources
               THEN "Fix include guard." ELSE "Run IWYU to fix includes.",
     diagnostics |-> <<diagnostics[i]>>,
     of |-> i]

\* context.diagnostics.filter(...).map(...) from diagnostic i on, lines 833-835.
RECURSIVE CodeActionsFrom(_, _, _)
CodeActionsFrom(diagnostics, range, i) ==
    IF i > Len(diagnostics) THEN <<>>
    ELSE (IF filterDiagnostics(diagnostics[i], range)
          THEN <<CodeAction(diagnostics, i)>> ELSE <<>>)
         \o CodeActionsFrom(diagnostics, range, i + 1)

\* The editor bringing an edit's positions inside the document: a line past the
\* last line becomes the end of the last line (the insert at
\* Position(doc.lineCount, 0) of line 893 appends to the document).
ValidateEdit(doc, edit) ==
    LET past == edit.line >= Len(doc)
        line == IF past THEN Len(doc) - 1 ELSE edit.line
        text == doc[line + 1]
    IN  [line |-> line,
         col  |-> IF past THEN Len(text) ELSE Min(edit.col, Len(text)),
         end  |-> IF past THEN Len(text) ELSE Min(edit.end, Len(text)),
         text |-> edit.text]

\* The editor applying one edit, its positions inside the document.
ApplyEdit(doc, edit) ==
    LET text == doc[edit.line + 1]
        pre  == SubSeq(text, 1, edit.col)
        post == From(text, edit.end + 1)
        n    == Len(edit.text)
        new  == IF n = 1 THEN <<pre \o edit.text[1] \o post>>
                ELSE <<pre \o edit.text[1]>> \o SubSeq(edit.text, 2, n - 1)
                     \o <<edit.text[n] \o post>>
    IN  SubSeq(doc, 1, edit.line) \o new \o SubSeq(doc, edit.line + 2, Len(doc))

EditBefore(e, f) == e.line < f.line \/ (e.line = f.line /\ e.col < f.col)

\* The editor applying edits whose positions all refer to the document before the
\* edits: the edit that starts last is applied first, and edits that start at one
\* position take effect in the order of the array.
RECURSIVE ApplyValidEdits(_, _)
ApplyValidEdits(doc, edits) ==
    IF edits = <<>> THEN doc
    ELSE LET n == Len(edits)
             k == CHOOSE i \in 1..n :
                    /\ \A j \in 1..n : ~EditBefore(edits[i], edits[j])
                    /\ \A j \in (i + 1)..n : EditBefore(edits[j], edits[i])
         IN  ApplyValidEdits(ApplyEdit(doc, edits[k]),
                             SubSeq(edits, 1, k - 1) \o SubSeq(edits, k + 1, n))

\* The editor applying the edits of one code action to a document.
ApplyEdits(doc, edits) ==
    ApplyValidEdits(doc, [i \in 1..Len(edits) |-> ValidateEdit(doc, edits[i])])


----------------------------------------------------------------------------
(* The world of the model: the files of compile_commands.json, the texts   *)
(* the analyzer prints, the documents.                                     *)

\* CompileCommand.directory of every entry (the workspace folder).
Directory == "/w"

HeaderFile == "/w/a.h"

SourceFile == "/w/a.cc"

\* A document that compile_commands.json has no entry for.
OtherFile == "/w/b.cc"

\* The keys of CompileCommandsData.compileCommands.
Files == {HeaderFile, SourceFile}

\* A report of include-what-you-use for the file: <a> is to be removed.
ReportRemove(f) ==
    <<f \o " should add these lines:",
      "",
      f \o " should remove these lines:",
      "- #include <a>  // lines 1-1",
      "",
      "The full include-list for " \o f \o ":",
      "#include <b>",
      "---">>

\* A report for the file: <c> is to be added.
ReportAdd(f) ==
    <<f \o " should add these lines:",
      "#include <c>",
      "",
      f \o " should remove these lines:",
      "",
      "The full include-list for " \o f \o ":",
      "#include <a>",
      "#include <c>",
      "---">>

\* A report that asks for no change.
ReportClean(f) == <<"(" \o f \o " has correct #includes/fwd-decls)">>

\* The texts an analyzer process can print for the file (stdout, with 2>&1).
AnalyzerOutputs(f) == {EmptyText, ReportRemove(f), ReportAdd(f)}

Callbacks == {"scan", "fix"}

\* No file on disk (fileSystem maps the paths that exist to [mtimeMs, valid,
\* files]: the time of the last write, whether JSON.parse reads the text, the
\* files of its entries).
NoFileSystem == <<>>

\* The index before it is built: no entries (compileCommands maps the absolute
\* file names to their entries), no patterns ("" is null).
NoCompileCommandsData ==
    [compileCommandsJsonPath |-> "", mtimeMs |-> -1, compileCommands |-> <<>>,
     ignoreRe |-> "", onlyRe |-> "", headerRe |-> ""]

\* No error found: "null" is null, shown the paths for which showErrorMessage
\* was called, bad the paths found missing or unparsable so far.
NoErrors ==
    [compileCommandsErrorShown |-> FALSE, compileCommandsErrorPath |-> "null",
     shown |-> <<>>, bad |-> {}]

\* No call made.  A call records its arguments and result, whether it raised an
\* exception, and the condition in which it found the compilation database.
NoCall ==
    [op |-> "", args |-> <<>>, result |-> <<>>, done |-> FALSE, threw |-> FALSE,
     found |-> ""]

NoDiagnostics == [has |-> FALSE, list |-> <<>>]

NoScan ==
    [called |-> FALSE, running |-> 0, threw |-> FALSE, diagnostics |-> <<>>, inspected |-> {},
     lists |-> <<>>, scanMax |-> 0, includeGuardLine |-> -1, pragmaOnceLine |-> -1,
     visited |-> <<>>, windows |-> <<>>]

\* The history record of a handler: the time at which it ran and the IWYU data
\* of its file as it found them, the scan it called, the analyzer runs it
\* started, for a completion its outcome, its callback and the text the process
\* printed, the text given to the rewriter, and for a quick fix the diagnostic
\* fixed.
Did(op, f) ==
    [op |-> op, file |-> f, at |-> now,
     data |-> IF f \in DOMAIN iwyuData THEN iwyuData[f] ELSE NewIwyuData(0),
     scan |-> NoScan, runs |-> 0, ok |-> TRUE, cb |-> "", stdout |-> <<>>,
     fix |-> <<>>, source |-> "", threw |-> FALSE]

----------------------------------------------------------------------------
(* class CompileCommandsData and class ConfigData,                         *)
(* src/src/extension.ts:155-191, 250-388.                                  *)

WorkspaceFolder == "/w"

DatabasePath == "/w/compile_commands.json"

\* new RegExp(pattern) throws a SyntaxError for a pattern that is no regular
\* expression; "(" is the one of the model.
RegExpThrows(pattern) == pattern = "("

\* fname.match(re) for the patterns of the model, which hold no character
\* with a meaning of its own: the text of the pattern occurs in fname.
match(fname, re) == IndexOf(fname, re) > 0

\* Lines 177-182: one of the three patterns makes new RegExp throw.
PatternThrows(cfg) ==
    \/ RegExpThrows(get(cfg, "fix.ignore_re", ""))
    \/ RegExpThrows(get(cfg, "fix.only_re", ""))
    \/ RegExpThrows(get(cfg, "diagnostics.include_guard_files", "[.](h|hh|hpp|hxx)$"))

\* JSON.parse(fs.readFileSync(path)) throws (lines 163, 173-175).
ParseFails(fs, path) == path # "" /\ ~fs[path].valid

\* new CompileCommandsData(config, [path, mtimeMs], workspacefolder) when no
\* pattern throws: an entry for every file of the database, none when the
\* path is "" or the text cannot be parsed.
CompileCommandsData(cfg, fs, path, mtimeMs) ==
    [compileCommandsJsonPath |-> path,
     mtimeMs |-> mtimeMs,
     compileCommands |-> IF path = "" \/ ParseFails(fs, path) THEN <<>>
                         ELSE [f \in fs[path].files |-> [file |-> f, directory |-> Directory]],
     ignoreRe |-> get(cfg, "fix.ignore_re", ""),
     onlyRe |-> get(cfg, "fix.only_re", ""),
     headerRe |-> get(cfg, "diagnostics.include_guard_files", "[.](h|hh|hpp|hxx)$")]

\* path.resolve(workspacefolder, fname) for a file name without "." and "..".
Absolute(fname) ==
    IF StartsWithAt(fname, 1, "/") THEN fname ELSE WorkspaceFolder \o "/" \o fname

\* The only pattern always lets the file pass.
C14_OnlyIgnored(data, fname) == FALSE

\* Lines 287-290: the file does not match iwyu.fix.only_re.
OnlyFails(data, fname) == data.onlyRe # "" /\ ~match(fname, data.onlyRe)

\* getCompileCommand of an absolute file name: <<>> is null, <<entry>> the
\* entry returned.
GetAbsolute(data, fname) ==
    IF fname \notin DOMAIN data.compileCommands THEN <<>>
    ELSE IF data.ignoreRe # "" /\ match(fname, data.ignoreRe) THEN <<>>
    ELSE IF OnlyFails(data, fname) THEN <<>>
    ELSE <<data.compileCommands[fname]>>

\* ConfigData.getCompileCommand(fname), lines 275-292.
getCompileCommand(data, fname) == GetAbsolute(data, Absolute(fname))

\* badCompileCommandsSetting(compileCommandsJsonPath, err), lines 303-313.
badCompileCommandsSetting(errs, path) ==
    [compileCommandsErrorShown |-> TRUE,
     compileCommandsErrorPath |-> path,
     shown |-> IF errs.compileCommandsErrorShown THEN errs.shown ELSE Append(errs.shown, path),
     bad |-> errs.bad \cup {path}]

\* The places looked at for the setting "auto" (lines 323-328) in the one
\* workspace folder, with ${fileWorkspaceFolder} the same folder.
AutoTests ==
    <<"/w/compile_commands.json", "/w/build/compile_commands.json",
      "/w/compile_commands.json", "/w/build/compile_commands.json">>

\* The first of the tests for which statSync succeeds, 0 when there is none.
FirstFound(fs, tests) ==
    IF \E i \in DOMAIN tests : tests[i] \in DOMAIN fs
    THEN CHOOSE i \in DOMAIN tests :
            tests[i] \in DOMAIN fs /\ \A j \in 1..(i - 1) : tests[j] \notin DOMAIN fs
    ELSE 0

\* Lines 330-350 for the tests of the setting, of which test k was found.
FoundAt(errs, fs, setting, tests, k) ==
    IF k = 0
    THEN [path |-> "", mtimeMs |-> -1, errors |-> badCompileCommandsSetting(errs, setting)]
    ELSE [path |-> tests[k], mtimeMs |-> fs[tests[k]].mtimeMs, errors |-> errs]

TestsOf(setting) == IF setting = "auto" THEN AutoTests ELSE <<setting>>

\* compileCommandsJson() for the value of iwyu.compile_commands, lines 315-351.
FoundFor(errs, fs, setting) ==
    IF setting = ""
    THEN [path |-> "", mtimeMs |-> -1, errors |-> badCompileCommandsSetting(errs, setting)]
    ELSE FoundAt(errs, fs, setting, TestsOf(setting), FirstFound(fs, TestsOf(setting)))

\* ConfigData.compileCommandsJson(): [path, mtimeMs] and the error fields it leaves.
compileCommandsJson(cfg, errs, fs) == FoundFor(errs, fs, get(cfg, "compile_commands", "auto"))

\* What the call has found of the compilation database c.path.
Condition(fs, c) ==
    IF c.path = "" THEN "missing" ELSE IF ParseFails(fs, c.path) THEN "unparsable" ELSE "ok"

\* The error fields once the text of c.path was given to JSON.parse: a failure
\* is logged only (line 174).
Parsed(fs, c) ==
    IF ParseFails(fs, c.path) THEN [c.errors EXCEPT !.bad = @ \cup {c.path}] ELSE c.errors

\* parseCompileCommands(c) replaces the index: every entry is a new
\* CompileCommand with a new IwyuData (line 141).  A pattern that throws leaves
\* the constructor before the index is assigned.
parseCompileCommands(op, args, c) ==
    /\ errors' = Parsed(fileSystem, c)
    /\ IF PatternThrows(config)
       THEN /\ call' = [NoCall EXCEPT !.op = op, !.args = args, !.done = TRUE, !.threw = TRUE,
                                      !.found = Condition(fileSystem, c)]
            /\ UNCHANGED <<compileCommandsData, iwyuData>>
       ELSE /\ compileCommandsData' = CompileCommandsData(config, fileSystem, c.path, c.mtimeMs)
            /\ iwyuData' = [f \in Files |-> NewIwyuData(now)]
            /\ call' = [NoCall EXCEPT !.op = op, !.args = args, !.done = TRUE,
                                      !.found = Condition(fileSystem, c),
                                      !.result = IF args = <<>> THEN <<>>
                                                 ELSE getCompileCommand(compileCommandsData', args[1])]

\* updateCompileCommands() (lines 357-366) with c of compileCommandsJson(), then
\* getCompileCommand(args[1]).
updateCompileCommands(op, args, c) ==
    IF c.path # "" /\ c.mtimeMs # -1
       /\ (compileCommandsData.compileCommandsJsonPath # c.path
           \/ compileCommandsData.mtimeMs # c.mtimeMs)
    THEN parseCompileCommands(op, args, c)
    ELSE /\ errors' = c.errors
         /\ call' = [NoCall EXCEPT !.op = op, !.args = args, !.done = TRUE,
                                   !.found = Condition(fileSystem, c),
                                   !.result = getCompileCommand(compileCommandsData, args[1])]
         /\ UNCHANGED <<compileCommandsData, iwyuData>>

\* The extension has been activated and its constructor has not thrown.
Active == call.op # "" /\ ~(call.op = "activate" /\ call.threw)

\* activate: new Extension, new ConfigData (lines 257-269, 390-394).
activate ==
    /\ call.op = ""
    /\ parseCompileCommands("activate", <<>>, compileCommandsJson(config, errors, fileSystem))
    /\ UNCHANGED <<now, config, pending, waiting, docs, iwyuDiagnostics, last, phase, fileSystem, replaced>>

\* The start of a refresh event or of the command for the document fname:
\* updateConfig(), updateCompileCommands(), getCompileCommand(fname)
\* (lines 540-542, 768-781).
resolve(fname) ==
    /\ Active
    /\ updateCompileCommands("resolve", <<fname>>, compileCommandsJson(config, errors, fileSystem))
    /\ UNCHANGED <<now, config, pending, waiting, docs, iwyuDiagnostics, last, phase, fileSystem, replaced>>

\* IwyuQuickFix.provideCodeActions for a guard diagnostic of the document
\* fname: fixIncludeGuard calls getCompileCommand(fname) only (line 884).
provideCodeActions(fname) ==
    /\ Active
    /\ call' = [NoCall EXCEPT !.op = "getCompileCommand", !.args = <<fname>>, !.done = TRUE,
                              !.result = getCompileCommand(compileCommandsData, fname)]
    /\ UNCHANGED <<now, config, iwyuData, pending, waiting, docs, iwyuDiagnostics, last,
                   phase, fileSystem, compileCommandsData, errors, replaced>>

----------------------------------------------------------------------------
(* Extension.iwyuRun, src/src/extension.ts:479-531.                        *)

\* The counter when the finally block leaves it as exec found it.
C2_RunningKept(running) == running + 1

\* The counter when iwyuRun leaves it at 1 or more.
C16_NeverReleased(running) == Max(1, running)

\* iwyuData.running after iwyuRun has returned: running++ before exec, and the
\* finally block, which runs when exec has started the process and returned,
\* sets running to Math.max(0, running - 1).
RunningAfterRun(running) == Max(0, (running + 1) - 1)

\* The number of analyzer processes of the file that have not completed.
Outstanding(f) == pending[f]["scan"] + pending[f]["fix"]

TotalOutstanding == Outstanding(HeaderFile) + Outstanding(SourceFile)

\* At most MaxOutstanding analyzer processes at a time in the model.
MaxOutstanding == 2

\* iwyuRun(compileCommand, callback): the analyzer process is started; its
\* completion callback runs later, as ExecCompleted.
iwyuRun(f, cb) ==
    /\ TotalOutstanding < MaxOutstanding
    /\ iwyuData' = [iwyuData EXCEPT ![f].running = RunningAfterRun(@)]
    /\ pending' = [pending EXCEPT ![f][cb] = @ + 1]

----------------------------------------------------------------------------
(* Extension.iwyuDiagnosticsRefresh, src/src/extension.ts:764-797.         *)

\* The call iwyuDiagnosticsScan(compileCommand, doc, iwyuDiagnostics) with the
\* IWYU data d of the file: what it publishes and what the history records.
ScanResult(f, d) == iwyuDiagnosticsScan(config, d, f, Directory, docs[f])

\* iwyuDiagnostics after a scan with result r: iwyuDiagnostics.set (line 761) is
\* reached unless the scan threw.
Published(f, r) ==
    IF r.threw THEN iwyuDiagnostics
    ELSE [iwyuDiagnostics EXCEPT ![f] = [has |-> TRUE, list |-> r.diagnostics]]

\* The history of a scan: the counter and the three lists of the IWYU data it
\* was given, and its result with the last values of scanMax, includeGuardLine
\* and pragmaOnceLine.
ScanRecord(d, r) ==
    [called |-> TRUE, running |-> d.running, threw |-> r.threw,
     diagnostics |-> r.diagnostics, inspected |-> r.inspected,
     lists |-> <<d.includesToAdd, d.includesToRemove, d.includesList>>,
     scanMax |-> r.scanMax, includeGuardLine |-> r.includeGuardLine,
     pragmaOnceLine |-> r.pragmaOnceLine, visited |-> r.visited, windows |-> r.windows]

\* The handler whose history record is did calls iwyuDiagnosticsScan with the
\* IWYU data d; r is the result.
ScanCalled(f, d, r, did) ==
    /\ iwyuDiagnostics' = Published(f, r)
    /\ last' = [did EXCEPT !.scan = ScanRecord(d, r)]

\* The condition of until(), src/src/extension.ts:271-273: no analyzer is counted
\* as running for the file.
IwyuFinished(d) == d.running = 0

\* The test of line 790: the cached report is used.
UseCached(d, cfg, t) ==
    d.output # EmptyText /\ d.updateTime + get(cfg, "diagnostics.iwyu_interval", 1000) > t

\* The continuation of waitUntilIwyuFinished (lines 786-796).
RefreshThen(f, op) ==
    IF UseCached(iwyuData[f], config, now)
    THEN /\ ScanCalled(f, iwyuData[f], ScanResult(f, iwyuData[f]), Did(op, f))
         /\ UNCHANGED <<now, config, iwyuData, pending, docs, phase, fileSystem, compileCommandsData, errors, call,
                   replaced>>
    ELSE /\ iwyuRun(f, "scan")
         /\ last' = [Did(op, f) EXCEPT !.runs = 1]
         /\ UNCHANGED <<now, config, docs, iwyuDiagnostics, phase, fileSystem, compileCommandsData, errors, call,
                   replaced>>

\* A document event (change, or change of the active editor) for an open C++
\* document whose file is in the index.  The first poll of until() and, when it
\* succeeds, the continuation run before any other handler.
iwyuDiagnosticsRefresh(f) ==
    IF IwyuFinished(iwyuData[f])
    THEN RefreshThen(f, "refresh") /\ UNCHANGED waiting
    ELSE /\ waiting' = waiting \cup {f}
         /\ last' = Did("refresh", f)
         /\ UNCHANGED <<now, config, iwyuData, pending, docs, iwyuDiagnostics, phase, fileSystem, compileCommandsData, errors, call,
                   replaced>>

\* The timer of until() (setTimeout, line 243) polling again for a refresh that
\* waits.  iwyuRun leaves running at 0 (RunningAfterRun), so the first poll of
\* every refresh succeeds, waiting stays empty and this step is enabled in no
\* reachable state: it is not a disjunct of Next.
untilPoll(f) ==
    /\ f \in waiting
    /\ IwyuFinished(iwyuData[f])
    /\ waiting' = waiting \ {f}
    /\ RefreshThen(f, "poll")

----------------------------------------------------------------------------
(* The completion callback of exec, src/src/extension.ts:516-526, with     *)
(* iwyuRunCallback, lines 461-477.                                         *)

\* The completion callback when it gives the output of a failed process to
\* update as well.
C15_FailureParsed(f, cb) ==
    /\ pending[f][cb] > 0
    /\ pending' = [pending EXCEPT ![f][cb] = @ - 1]
    /\ iwyuData' = [iwyuData EXCEPT ![f] = update(@, EmptyText, f, TRUE, now)]
    /\ last' = [Did("complete", f) EXCEPT !.ok = FALSE, !.cb = cb]
    /\ UNCHANGED <<now, config, waiting, docs, iwyuDiagnostics, phase, fileSystem,
                   compileCommandsData, errors, call, replaced>>

\* The completion callback when it calls the callback of iwyuRun for a failed
\* process as well, with what the process printed.
C23_FailureFixed(f, cb) ==
    /\ pending[f][cb] > 0
    /\ pending' = [pending EXCEPT ![f][cb] = @ - 1]
    /\ last' = [Did("complete", f) EXCEPT !.ok = FALSE, !.cb = cb,
                                          !.fix = IF cb = "fix" THEN EmptyText ELSE <<>>]
    /\ UNCHANGED <<now, config, iwyuData, waiting, docs, iwyuDiagnostics, phase, fileSystem,
                   compileCommandsData, errors, call, replaced>>

\* The analyzer process of file f started with callback cb ends with an error:
\* err is set, the callback logs and returns (lines 520-522).
ExecFailed(f, cb) ==
    /\ pending[f][cb] > 0
    /\ pending' = [pending EXCEPT ![f][cb] = @ - 1]
    /\ last' = [Did("complete", f) EXCEPT !.ok = FALSE, !.cb = cb]
    /\ UNCHANGED <<now, config, iwyuData, waiting, docs, iwyuDiagnostics, phase, fileSystem, compileCommandsData, errors, call,
                   replaced>>

\* A filter that no line matches.
C36_NothingMatches(line, filter) == FALSE

\* line.match(new RegExp("#include.*(" + filter + ")")) for the filters of the
\* model, which hold no character with a meaning of its own: the text of the
\* filter occurs after the first "#include" of the line.
filterMatch(line, filter) ==
    /\ IndexOf(line, "#include") > 0
    /\ IndexOfFrom(line, filter, IndexOf(line, "#include") + Len("#include")) > 0

\* The lines pushed to filtered (lines 466-470), from line i on.
RECURSIVE FilterFrom(_, _, _)
FilterFrom(output, i, filter) ==
    IF i > Len(output) THEN <<>>
    ELSE (IF filterMatch(output[i], filter) THEN <<>> ELSE <<output[i]>>)
         \o FilterFrom(output, i + 1, filter)

\* filtered.join("\n") as the lines of the text: no line makes the empty text,
\* which has one empty line.
Joined(filtered) == IF filtered = <<>> THEN EmptyText ELSE filtered

\* Lines 462-476 of iwyuRunCallback for the output of the analyzer: threw tells
\* that new RegExp threw; otherwise output is the text given to update and to
\* the callback, and data what update makes of the data of the file.
FilteredCallback(cfg, data, f, iwyuOutput, iwyuFilterOutput, t) ==
    [threw |-> iwyuFilterOutput # "" /\ RegExpThrows(iwyuFilterOutput),
     output |-> IF iwyuFilterOutput = "" THEN iwyuOutput
                ELSE Joined(FilterFrom(iwyuOutput, 1, iwyuFilterOutput)),
     data |-> update(data,
                     IF iwyuFilterOutput = "" THEN iwyuOutput
                     ELSE Joined(FilterFrom(iwyuOutput, 1, iwyuFilterOutput)),
                     f, get(cfg, "iwyu.diagnostics.unused_includes", TRUE), t)]

RunCallback(cfg, data, f, iwyuOutput, t) ==
    FilteredCallback(cfg, data, f, iwyuOutput, get(cfg, "filter_iwyu_output", ""), t)

\* iwyuRunCallback (lines 461-477) once update has made d of the data of the
\* file: the callback is iwyuDiagnosticsScan for a refresh and iwyuFix for the
\* command.
iwyuRunCallback(f, cb, stdout, d) ==
    /\ iwyuData' = [iwyuData EXCEPT ![f] = d]
    /\ IF cb = "scan"
       THEN ScanCalled(f, d, ScanResult(f, d),
                       [Did("complete", f) EXCEPT !.cb = cb, !.stdout = stdout])
       ELSE /\ iwyuDiagnostics' = iwyuDiagnostics
            /\ last' = [Did("complete", f) EXCEPT !.cb = cb, !.stdout = stdout,
                                                   !.fix = stdout]

\* iwyuRunCallback with the result r of its filter and of update: a filter that
\* is no regular expression makes it throw before update.
CallbackRan(f, cb, r) ==
    IF r.threw
    THEN /\ last' = [Did("complete", f) EXCEPT !.cb = cb, !.threw = TRUE]
         /\ UNCHANGED <<iwyuData, iwyuDiagnostics>>
    ELSE iwyuRunCallback(f, cb, r.output, r.data)

\* The analyzer process of file f started with callback cb ends well, having
\* printed stdout.
ExecCompleted(f, cb, stdout) ==
    /\ pending[f][cb] > 0
    /\ pending' = [pending EXCEPT ![f][cb] = @ - 1]
    /\ CallbackRan(f, cb, RunCallback(config, iwyuData[f], f, stdout, now))
    /\ UNCHANGED <<now, config, waiting, docs, phase, fileSystem, compileCommandsData, errors, call, replaced>>

----------------------------------------------------------------------------
(* Extension.iwyuCommandOne, src/src/extension.ts:533-547: the command     *)
(* "Include What You Use (current file)" with the document of f active.    *)

\* The database is as it was when the index was built: updateCompileCommands
\* (line 541) leaves the index, and a file without compile command is left alone
\* (lines 542-543).
iwyuCommandOne(f) ==
    IF getCompileCommand(compileCommandsData, f) = <<>>
    THEN /\ last' = Did("commandOne", f)
         /\ UNCHANGED <<now, config, iwyuData, pending, waiting, docs, iwyuDiagnostics, phase,
                        fileSystem, compileCommandsData, errors, call, replaced>>
    ELSE /\ iwyuRun(f, "fix")
         /\ last' = [Did("commandOne", f) EXCEPT !.runs = 1]
         /\ UNCHANGED <<now, config, waiting, docs, iwyuDiagnostics, phase, fileSystem,
                        compileCommandsData, errors, call, replaced>>

\* onDidCloseTextDocument, src/src/extension.ts:813-815.
DocumentClosed(f) ==
    /\ iwyuDiagnostics' = [iwyuDiagnostics EXCEPT ![f] = NoDiagnostics]
    /\ last' = Did("close", f)
    /\ UNCHANGED <<now, config, iwyuData, pending, waiting, docs, phase, fileSystem, compileCommandsData, errors, call,
                   replaced>>

\* Time passes: Date.now() grows by one millisecond.
MaxNow == 2

Tick ==
    /\ now < MaxNow
    /\ now' = now + 1
    /\ last' = Did("tick", "")
    /\ UNCHANGED <<config, iwyuData, pending, waiting, docs, iwyuDiagnostics, phase, fileSystem, compileCommandsData, errors, call,
                   replaced>>


----------------------------------------------------------------------------
(* The guard quick fix applied by the editor: provideCodeActions offers the *)
(* action of a guard diagnostic of the last scan, the user applies it.      *)

\* At most MaxFixes quick fixes are applied to a document in the model.
MaxFixes == 1

QuickFixApplied(f, i) ==
    LET diagnostic == iwyuDiagnostics[f].list[i]
        expected == getIncludeGuard(get(config, "diagnostics.include_guard", ""), f, Directory)
    IN  /\ phase.fixes < MaxFixes
        /\ last.op = "refresh" /\ last.file = f /\ last.scan.called /\ ~last.scan.threw
        /\ diagnostic.source \in GuardSources
        /\ docs' = [docs EXCEPT ![f] = ApplyEdits(@, createCommandCodeAction(@, diagnostic, expected))]
        /\ phase' = [phase EXCEPT !.fixes = @ + 1, !.fixed = diagnostic.source]
        /\ last' = [Did("quickfix", f) EXCEPT !.source = diagnostic.source]
        /\ UNCHANGED <<now, config, iwyuData, pending, waiting, iwyuDiagnostics, fileSystem, compileCommandsData, errors, call,
                   replaced>>

----------------------------------------------------------------------------
(* The specification of the controller: the events of one open document    *)
(* (phase.file), the command, the completions of the analyzer processes    *)
(* and the clock.                                                          *)

NoPhase == [file |-> "", fixes |-> 0, fixed |-> ""]

GuardedHeader == <<"#ifndef A_H_", "#define A_H_", "#include <a>", "#endif  // A_H_">>

SourceText == <<"#include <a>", "int x;">>

\* The value of iwyu.diagnostics.iwyu_interval of the model.
IntervalValues == {2}

ControllerConfig(interval) ==
    ("diagnostics.iwyu_interval" :> interval) @@ ("diagnostics.scan_min" :> 2)
    @@ ("diagnostics.scan_more" :> 1) @@ ("diagnostics.include_guard" :> "${FILE}_")

Init ==
    /\ now = 0
    /\ config \in {ControllerConfig(n) : n \in IntervalValues}
                 \cup {("diagnostics.unused_includes" :> FALSE) @@ ControllerConfig(n) :
                          n \in IntervalValues}
    /\ iwyuData = [f \in Files |-> NewIwyuData(0)]
    /\ pending = [f \in Files |-> [cb \in Callbacks |-> 0]]
    /\ waiting = {}
    /\ docs = (HeaderFile :> GuardedHeader) @@ (SourceFile :> SourceText)
    /\ iwyuDiagnostics = [f \in Files |-> NoDiagnostics]
    /\ last = Did("init", "")
    /\ fileSystem = (DatabasePath :> [mtimeMs |-> 0, valid |-> TRUE, files |-> Files])
    /\ compileCommandsData = CompileCommandsData(config, fileSystem, DatabasePath, 0)
    /\ errors = NoErrors
    /\ call = NoCall
    /\ replaced = <<>>
    /\ phase \in {[NoPhase EXCEPT !.file = f] : f \in Files}

Next ==
    \/ iwyuDiagnosticsRefresh(phase.file)
    \/ \E cb \in Callbacks : ExecFailed(phase.file, cb)
    \/ \E cb \in Callbacks : \E stdout \in AnalyzerOutputs(phase.file) :
          ExecCompleted(phase.file, cb, stdout)
    \/ iwyuCommandOne(phase.file)
    \/ iwyuCommandOne(OtherFile)
    \/ DocumentClosed(phase.file)
    \/ Tick

Spec == Init /\ [][Next]_vars

\* An analyzer process that was started ends: exec calls its callback.
ProcessEnds ==
    \E cb \in Callbacks :
        \/ ExecFailed(phase.file, cb)
        \/ \E stdout \in AnalyzerOutputs(phase.file) : ExecCompleted(phase.file, cb, stdout)

\* The controller with every started process ending.
FairSpec == Spec /\ WF_vars(ProcessEnds)

----------------------------------------------------------------------------
(* The specification of the scanner: one document of bounded length over   *)
(* the lines below, with a report cached for its file, is scanned by a     *)
(* refresh, a guard quick fix is applied, and the text is scanned again.   *)

\* The documents of every combination of lines have 1..MaxLines lines.
MaxLines == 2

HeaderLines ==
    {"", "// c", "#ifndef A_H_", "#ifndef X", "#define A_H_", "#endif  // A_H_",
     "#pragma once", "#include <a>", "#include <A>", "int x;"}

SourceLines == {"", "// c", "#include <a>", "#include <A>", "int x;"}

\* Include lines with white space before and after the #, and with the include
\* once more in a comment.
IndentedLines == {"#include <a>", "  #  include  <a>", " #include <a>  // <a>", "int <a>;"}

BlankLines(n) == [i \in 1..n |-> ""]

\* Longer documents: blank and comment lines before an include (section 8 of the
\* specification has five blank lines), headers with and without guards, headers
\* whose #endif is or is not among the last 10 lines.
ScenarioDocs ==
    {<<"", "", "#include <a>">>,
     <<"", "// c", "", "#include <a>">>,
     <<"", "", "", "", "", "#include <a>">>,
     <<"", "", "", "", "", "", "#include <a>">>,
     <<"// c", "int x;", "#include <a>", "#include <A>">>,
     <<"#ifndef A_H_", "#define A_H_", "#include <a>", "#endif  // A_H_">>,
     <<"// c", "#pragma once", "#include <a>", "int x;">>,
     <<"// c", "", "int x;", "">>,
     <<"#ifndef A_H_", "", "#define A_H_", "#endif  // A_H_">>,
     <<"#define A_H_", "#ifndef A_H_", "int x;", "#endif  // A_H_">>,
     <<"#include <A>", "int x;", "#include <a>">>,
     <<"int x;", "#include <A>", "int x;", "#include <a>">>,
     <<"#ifndef A_H_", "#endif  // A_H_">> \o BlankLines(9),
     <<"#ifndef A_H_", "#endif  // A_H_">> \o BlankLines(10),
     <<"#ifndef A_H_", "#define A_H_", "#endif  // X">> \o BlankLines(9),
     <<"#ifndef A_H_", "#define A_H_", "#endif  // A_H_", "#endif">> \o BlankLines(2)}

DocsOver(lines) == UNION {[1..n -> lines] : n \in 1..MaxLines}

ScanMinValues == {0, 1, 3}

ScanMoreValues == {0, 1, 2}

ScanConfig(scanMin, scanMore, guard) ==
    ("diagnostics.scan_min" :> scanMin) @@ ("diagnostics.scan_more" :> scanMore)
    @@ ("diagnostics.include_guard" :> guard)

\* The file, the setting iwyu.diagnostics.include_guard and the documents of a
\* scan: a header with the guard check, a header and a source file without.
ScanCases ==
    {[file |-> HeaderFile, guard |-> "${FILE}_", docs |-> DocsOver(HeaderLines) \cup ScenarioDocs,
      squiggles |-> {TRUE}],
     [file |-> HeaderFile, guard |-> "", docs |-> DocsOver(SourceLines), squiggles |-> {TRUE}],
     [file |-> SourceFile, guard |-> "${FILE}_", docs |-> DocsOver(SourceLines) \cup ScenarioDocs,
      squiggles |-> {TRUE}],
     [file |-> SourceFile, guard |-> "", docs |-> DocsOver(IndentedLines),
      squiggles |-> {TRUE, FALSE}]}

\* The reports cached when the scan starts: one that removes <a>, one that removes
\* nothing.
CachedReports(f) == {ReportRemove(f), ReportClean(f)}

ScanInit ==
    /\ now = 0
    /\ \E c \in ScanCases :
         /\ phase = [NoPhase EXCEPT !.file = c.file]
         /\ \E d \in c.docs : docs = [g \in Files |-> IF g = c.file THEN d ELSE <<"">>]
         /\ \E r \in CachedReports(c.file) :
              iwyuData = [g \in Files |->
                            IF g = c.file THEN update(NewIwyuData(0), r, g, TRUE, 0)
                            ELSE NewIwyuData(0)]
         /\ config \in {("diagnostics.full_line_squiggles" :> q) @@ ScanConfig(m, k, c.guard) :
                            m \in ScanMinValues, k \in ScanMoreValues, q \in c.squiggles}
    /\ pending = [f \in Files |-> [cb \in Callbacks |-> 0]]
    /\ waiting = {}
    /\ iwyuDiagnostics = [f \in Files |-> NoDiagnostics]
    /\ last = Did("init", "")
    /\ fileSystem = NoFileSystem
    /\ compileCommandsData = NoCompileCommandsData
    /\ errors = NoErrors
    /\ call = NoCall
    /\ replaced = <<>>

ScanNext ==
    \/ iwyuDiagnosticsRefresh(phase.file)
    \/ \E i \in 1..Len(iwyuDiagnostics[phase.file].list) : QuickFixApplied(phase.file, i)

ScanSpec == ScanInit /\ [][ScanNext]_vars

----------------------------------------------------------------------------
(* The specification of the functions: parseCommandLine reads a command    *)
(* line of a compile_commands.json entry, getIncludeGuard makes the guard  *)
(* of a file from the setting iwyu.diagnostics.include_guard.              *)

\* The command lines have 0..MaxCmdLen characters.
MaxCmdLen == 4

CommandChars == {" ", "'", "\"", "\\", "a"}

RECURSIVE StringsOver(_, _)
StringsOver(chars, n) ==
    IF n = 0 THEN {""}
    ELSE {s \o c : s \in StringsOver(chars, n - 1), c \in chars \cup {""}}

CommandLines == StringsOver(CommandChars, MaxCmdLen)

GuardTemplates ==
    {"", "G", "${FILE}_", "${file}_guard", "${file}_${file}", "${FILE}${FILE}",
     "${FILE}_${file}", "x_${File}"}

GuardFiles == {"/w/path/foo.h", "/w/a.h", "/w/a-b.hpp", "path/foo.h"}

GuardDirectories == {"/w", "/w/", ""}

\* The variables of the extension while a function is called: as Init leaves them.
Untouched ==
    /\ now = 0
    /\ config = ControllerConfig(2)
    /\ iwyuData = [f \in Files |-> NewIwyuData(0)]
    /\ pending = [f \in Files |-> [cb \in Callbacks |-> 0]]
    /\ waiting = {}
    /\ docs = (HeaderFile :> GuardedHeader) @@ (SourceFile :> SourceText)
    /\ iwyuDiagnostics = [f \in Files |-> NoDiagnostics]
    /\ last = Did("init", "")
    /\ phase = NoPhase
    /\ fileSystem = NoFileSystem
    /\ compileCommandsData = NoCompileCommandsData
    /\ errors = NoErrors
    /\ replaced = <<>>

\* A call of a function with its arguments, not yet made.
Call(op, args) == [NoCall EXCEPT !.op = op, !.args = args]

\* context.diagnostics holds up to MaxDiagnostics diagnostics.
MaxDiagnostics == 2

\* The diagnostics of a document whose line 1 is an include of 12 characters:
\* one of each source of the extension and one of another extension.
ContextDiagnostics ==
    {createDiagnostic(1, 0, 12, source) :
        source \in GuardSources \cup {IWYU_DIAGNISTIC_UNUSED_HEADER, "clang-tidy"}}

\* The selections for which code actions are asked: the cursor inside the
\* include, the line of the include, a part of it, the line above, and a
\* range over several lines.
Selections ==
    {[line |-> 1, col |-> 3, endLine |-> 1, endCol |-> 3],
     [line |-> 1, col |-> 0, endLine |-> 1, endCol |-> 12],
     [line |-> 1, col |-> 1, endLine |-> 1, endCol |-> 12],
     [line |-> 0, col |-> 0, endLine |-> 0, endCol |-> 20],
     [line |-> 0, col |-> 5, endLine |-> 2, endCol |-> 0]}

\* The reports have 1..MaxReportLen lines: output.split("\n") gives one line at
\* least.
MaxReportLen == 4

\* The lines of a report for the file: the three markers, a blank line, an
\* include line, a line of the remove section, and a line that holds an
\* include after other text.
ReportLines(f) ==
    {f \o " should add these lines:", f \o " should remove these lines:",
     "The full include-list for " \o f \o ":", "",
     "#include <a>", "- #include <b>  // lines 1-1", "class C;  // #include <c>"}

Reports(f) == UNION {[1..n -> ReportLines(f)] : n \in 1..MaxReportLen}

\* The lines of the reports given to iwyuRunCallback: two markers, a blank
\* line, the include <b> in a line of the remove section and in a line of the
\* full list, and another include.
FilteredLines(f) ==
    {f \o " should remove these lines:", "The full include-list for " \o f \o ":", "",
     "- #include <b>  // lines 1-1", "#include <b>  // for B", "#include <a>"}

FilteredReports(f) == UNION {[1..n -> FilteredLines(f)] : n \in 1..MaxReportLen}

\* The values of iwyu.filter_iwyu_output: unset, the name of an include, a
\* text of the comment of a line, and a text that is no regular expression.
Filters == {"", "<b>", "lines", "("}

CallInit ==
    /\ Untouched
    /\ call \in {Call("parseCommandLine", <<cmd>>) : cmd \in CommandLines}
             \cup {Call("update", <<output, HeaderFile, enableDiagnostics, 0>>) :
                      output \in Reports(HeaderFile), enableDiagnostics \in BOOLEAN}
             \cup {Call("iwyuRunCallback", <<output, HeaderFile, filter, "fix", 0>>) :
                      output \in FilteredReports(HeaderFile), filter \in Filters}
             \cup {Call("getIncludeGuard", <<guard, fileName, directory>>) :
                      guard \in GuardTemplates, fileName \in GuardFiles,
                      directory \in GuardDirectories}
             \cup {Call("provideCodeActions", <<diagnostics, range>>) :
                      diagnostics \in UNION {[1..n -> ContextDiagnostics] : n \in 0..MaxDiagnostics},
                      range \in Selections}

parseCommandLineCalled ==
    /\ call.op = "parseCommandLine" /\ ~call.done
    /\ call' = [call EXCEPT !.result = parseCommandLine(call.args[1]), !.done = TRUE]
    /\ UNCHANGED <<now, config, iwyuData, pending, waiting, docs, iwyuDiagnostics, last,
                   phase, fileSystem, compileCommandsData, errors, replaced>>

getIncludeGuardCalled ==
    /\ call.op = "getIncludeGuard" /\ ~call.done
    /\ call' = [call EXCEPT !.result = getIncludeGuard(call.args[1], call.args[2], call.args[3]),
                            !.done = TRUE]
    /\ UNCHANGED <<now, config, iwyuData, pending, waiting, docs, iwyuDiagnostics, last,
                   phase, fileSystem, compileCommandsData, errors, replaced>>

\* IwyuQuickFix.provideCodeActions(doc, range, context), lines 830-836.
codeActionsProvided ==
    /\ call.op = "provideCodeActions" /\ ~call.done
    /\ call' = [call EXCEPT !.result = CodeActionsFrom(call.args[1], call.args[2], 1),
                            !.done = TRUE]
    /\ UNCHANGED <<now, config, iwyuData, pending, waiting, docs, iwyuDiagnostics, last,
                   phase, fileSystem, compileCommandsData, errors, replaced>>

\* IwyuData.update(output, fileName, enableDiagnostics) on a new IwyuData at the
\* time given: the result is the data updated.
updateCalled ==
    /\ call.op = "update" /\ ~call.done
    /\ call' = [call EXCEPT !.result = update(NewIwyuData(0), call.args[1], call.args[2],
                                              call.args[3], call.args[4]),
                            !.done = TRUE]
    /\ UNCHANGED <<now, config, iwyuData, pending, waiting, docs, iwyuDiagnostics, last,
                   phase, fileSystem, compileCommandsData, errors, replaced>>

\* iwyuRunCallback(compileCommand, iwyuOutput, this.iwyuFix) with a new IwyuData
\* and the setting iwyu.filter_iwyu_output given: the result holds the data
\* updated and the text handed to the callback.
iwyuRunCallbackCalled ==
    /\ call.op = "iwyuRunCallback" /\ ~call.done
    /\ call' = [call EXCEPT !.result = RunCallback(("filter_iwyu_output" :> call.args[3]),
                                                   NewIwyuData(0), call.args[2],
                                                   call.args[1], call.args[5]),
                            !.threw = RunCallback(("filter_iwyu_output" :> call.args[3]),
                                                  NewIwyuData(0), call.args[2],
                                                  call.args[1], call.args[5]).threw,
                            !.done = TRUE]
    /\ UNCHANGED <<now, config, iwyuData, pending, waiting, docs, iwyuDiagnostics, last,
                   phase, fileSystem, compileCommandsData, errors, replaced>>

CallNext ==
    \/ updateCalled
    \/ iwyuRunCallbackCalled
    \/ parseCommandLineCalled
    \/ getIncludeGuardCalled
    \/ codeActionsProvided

CallSpec == CallInit /\ [][CallNext]_vars

----------------------------------------------------------------------------
(* The specification of the index: the compilation database is written and *)
(* removed, the settings change, the extension is activated, documents are *)
(* refreshed and asked for code actions.                                   *)

\* The texts written to the database: a list of entries or no JSON at all.
DatabaseTexts == {[valid |-> TRUE, files |-> Files], [valid |-> FALSE, files |-> {}]}

\* The values of the settings: iwyu.compile_commands is a file that never
\* exists, iwyu.fix.ignore_re a text or "(", iwyu.fix.only_re a text.
Settings ==
    [key : {"compile_commands"}, value : {"/w/x.json"}]
    \cup [key : {"fix.ignore_re"}, value : {"cc", "("}]
    \cup [key : {"fix.only_re"}, value : {"h"}]

\* The documents: two of the database, one by its relative name, and one more.
Documents == {"a.h", SourceFile, "/w/b.h"}

\* fs.writeFileSync(path, text) by the build system, at a later time.
fileWritten(path, text) ==
    /\ now < MaxNow
    /\ now' = now + 1
    /\ fileSystem' = (path :> [mtimeMs |-> now', valid |-> text.valid, files |-> text.files])
    /\ UNCHANGED <<config, iwyuData, pending, waiting, docs, iwyuDiagnostics, last, phase,
                   compileCommandsData, errors, call, replaced>>

fileRemoved(path) ==
    /\ path \in DOMAIN fileSystem
    /\ fileSystem' = NoFileSystem
    /\ UNCHANGED <<now, config, iwyuData, pending, waiting, docs, iwyuDiagnostics, last,
                   phase, compileCommandsData, errors, call, replaced>>

\* The user sets or resets a setting.
settingChanged(key, value) ==
    /\ config' = IF key \in DOMAIN config /\ config[key] = value
                 THEN [k \in DOMAIN config \ {key} |-> config[k]]
                 ELSE (key :> value) @@ config
    /\ UNCHANGED <<now, iwyuData, pending, waiting, docs, iwyuDiagnostics, last, phase,
                   fileSystem, compileCommandsData, errors, call, replaced>>

IndexInit ==
    /\ Untouched
    /\ call = NoCall

IndexNext ==
    \/ activate
    \/ \E fname \in Documents : resolve(fname)
    \/ \E fname \in Documents : provideCodeActions(fname)
    \/ \E text \in DatabaseTexts : fileWritten(DatabasePath, text)
    \/ fileRemoved(DatabasePath)
    \/ \E s \in Settings : settingChanged(s.key, s.value)

IndexSpec == IndexInit /\ [][IndexNext]_vars

----------------------------------------------------------------------------
(* The specification of the index replaced while analyzers run: the        *)
(* database is written again, documents are refreshed, and the processes   *)
(* started for the entries of the index and of the replaced indexes end.   *)

\* The completion callback that looks the entry of the file up in the index
\* when the process ends.
C38_CurrentEntry(issued, current) == current

\* The index whose entry the completion callback updates: the callback given
\* to exec closes over the compileCommand of iwyuRun (lines 516-524), the entry
\* of the index the invocation was issued for.
Captured(issued, current) == issued

NoPending == [f \in Files |-> [cb \in Callbacks |-> 0]]

\* The database has changed: updateCompileCommands replaces the index.
Differs(c) ==
    /\ c.path # "" /\ c.mtimeMs # -1
    /\ (compileCommandsData.compileCommandsJsonPath # c.path
        \/ compileCommandsData.mtimeMs # c.mtimeMs)

\* iwyuDiagnosticsRefresh for the document f when updateCompileCommands
\* replaces the index by one with the new entries (lines 777-796): the
\* entries replaced stay with the processes started for them.
RefreshReplacing(f, c, entries) ==
    /\ compileCommandsData' = CompileCommandsData(config, fileSystem, c.path, c.mtimeMs)
    /\ errors' = Parsed(fileSystem, c)
    /\ replaced' = IF TotalOutstanding > 0
                   THEN Append(replaced, [iwyuData |-> iwyuData, pending |-> pending])
                   ELSE replaced
    /\ IF UseCached(entries[f], config, now)
       THEN /\ ScanCalled(f, entries[f], ScanResult(f, entries[f]), Did("refresh", f))
            /\ iwyuData' = entries
            /\ pending' = NoPending
       ELSE /\ iwyuData' = [entries EXCEPT ![f].running = RunningAfterRun(@)]
            /\ pending' = [NoPending EXCEPT ![f]["scan"] = 1]
            /\ last' = [Did("refresh", f) EXCEPT !.runs = 1]
            /\ UNCHANGED iwyuDiagnostics
    /\ UNCHANGED <<now, config, waiting, docs, phase, fileSystem, call>>

\* A document event for the open document f: updateCompileCommands, then the
\* refresh with the entry of the index.
refreshed(f) ==
    IF Differs(compileCommandsJson(config, errors, fileSystem)) /\ ~PatternThrows(config)
    THEN RefreshReplacing(f, compileCommandsJson(config, errors, fileSystem),
                          [g \in Files |-> NewIwyuData(now)])
    ELSE iwyuDiagnosticsRefresh(f)

\* The entries of the indexes when the callback has made d of the data of the
\* entry of f in the index owner: an index replaced, or the index.
EntriesUpdated(g, f, cb, owner, d) ==
    IF owner \in DOMAIN replaced
    THEN /\ replaced' = [replaced EXCEPT ![g].pending[f][cb] = @ - 1, ![owner].iwyuData[f] = d]
         /\ UNCHANGED iwyuData
    ELSE /\ replaced' = [replaced EXCEPT ![g].pending[f][cb] = @ - 1]
         /\ iwyuData' = [iwyuData EXCEPT ![f] = d]

\* The analyzer process started with callback cb for the entry of f in the
\* replaced index g ends without error: iwyuRunCallback with the compileCommand
\* of the closure, then the callback of iwyuRun with it.
replacedCompleted(g, f, cb, stdout) ==
    /\ g \in DOMAIN replaced
    /\ replaced[g].pending[f][cb] > 0
    /\ LET r == RunCallback(config, replaced[g].iwyuData[f], f, stdout, now)
       IN  IF r.threw
           THEN /\ replaced' = [replaced EXCEPT ![g].pending[f][cb] = @ - 1]
                /\ last' = [Did("complete", f) EXCEPT !.cb = cb, !.threw = TRUE]
                /\ UNCHANGED <<iwyuData, iwyuDiagnostics>>
           ELSE /\ EntriesUpdated(g, f, cb, Captured(g, Len(replaced) + 1), r.data)
                /\ IF cb = "scan"
                   THEN ScanCalled(f, r.data, ScanResult(f, r.data),
                                   [Did("complete", f) EXCEPT !.cb = cb, !.stdout = r.output])
                   ELSE /\ last' = [Did("complete", f) EXCEPT !.cb = cb, !.stdout = r.output,
                                                              !.fix = r.output]
                        /\ UNCHANGED iwyuDiagnostics
    /\ UNCHANGED <<now, config, pending, waiting, docs, phase, fileSystem,
                   compileCommandsData, errors, call>>

\* The report of the analyzer for a file in this specification.
RebuildOutputs(f) == {ReportRemove(f)}

RebuildInit ==
    /\ Init
    /\ config = ControllerConfig(2)
    /\ phase.file = HeaderFile

\* The database is written at most MaxRebuilds times.
MaxRebuilds == 1

\* The build system writes the database again.
databaseRewritten ==
    /\ fileSystem[DatabasePath].mtimeMs < MaxRebuilds
    /\ fileWritten(DatabasePath, [valid |-> TRUE, files |-> Files])

RebuildNext ==
    \/ \E f \in Files : refreshed(f)
    \/ databaseRewritten
    \/ \E stdout \in RebuildOutputs(phase.file) : ExecCompleted(phase.file, "scan", stdout)
    \/ \E g \in DOMAIN replaced : \E stdout \in RebuildOutputs(phase.file) :
          replacedCompleted(g, phase.file, "scan", stdout)

RebuildSpec == RebuildInit /\ [][RebuildNext]_vars

----------------------------------------------------------------------------
(* Properties of the invocation controller, checked under Spec.            *)

\* C1: at every moment the counter iwyuData.running of a file equals the number
\* of analyzer invocations issued for the file by iwyuRun whose completion
\* callback has not yet run.
C1_RunningIsOutstanding == \A f \in Files : iwyuData[f].running = Outstanding(f)

\* C2: iwyuDiagnosticsScan is never called for a file whose counter running is
\* above 0, and a refresh that scans or starts the analyzer found the counter
\* at 0.
C2_ScanOnlyWhenNotRunning ==
    /\ last.scan.called => last.scan.running = 0
    /\ (last.op = "refresh" /\ (last.scan.called \/ last.runs > 0)) => last.data.running = 0

\* A refresh has scanned the cached report, the counter being 0.
C2_RefreshScanned == last.op = "refresh" /\ last.scan.called /\ last.scan.running = 0

\* C3: for one file at most one analyzer invocation issued by a refresh is
\* outstanding at a time.
C3_OneOutstandingPerFile == \A f \in Files : pending[f]["scan"] <= 1

\* The test of a refresh as the specification words it: the report is not empty
\* and now - lastUpdated < interval, with the values the refresh found.
CachedAt(h, interval) == h.data.output # EmptyText /\ h.at - h.data.updateTime < interval

\* C4: a refresh scans the cached report and starts no analyzer iff the report
\* is not empty and now - lastUpdated < interval; otherwise it starts exactly
\* one analyzer and no scan of the file happens until that analyzer has
\* completed with success.
C4_RefreshScansOrRuns ==
    /\ last.op = "refresh" =>
         IF CachedAt(last, get(config, "diagnostics.iwyu_interval", 1000))
         THEN last.scan.called /\ last.runs = 0
         ELSE ~last.scan.called /\ last.runs = 1
    /\ last.scan.called => pending[last.file]["scan"] = 0

\* Date.now() counts milliseconds.
MsPerSecond == 1000

\* C5: iwyu.diagnostics.iwyu_interval = N is a minimum interval in seconds:
\* a refresh less than N seconds after the report of the file was updated with
\* a non-empty output starts no analyzer.
C5_IntervalInSeconds ==
    (/\ last.op = "refresh"
     /\ last.data.output # EmptyText
     /\ last.at - last.data.updateTime
          < get(config, "diagnostics.iwyu_interval", 1000) * MsPerSecond)
    => last.runs = 0

\* The three lists of an IwyuData.
Lists(d) == <<d.includesToAdd, d.includesToRemove, d.includesList>>

\* The lists update makes of a report on a new IwyuData.
ListsOf(stdout, f) ==
    Lists(update(NewIwyuData(0), stdout, f,
                 get(config, "iwyu.diagnostics.unused_includes", TRUE), 0))

\* C11: the lists update leaves depend on the report text only, not on what
\* the IWYU data held before: after update(t1); update(t2) the three lists are
\* those of update(t2) on new data, and no entry of the earlier report is left.
C11_UpdateReplacesLists ==
    (last.op = "complete" /\ last.ok) =>
        Lists(iwyuData[last.file]) = ListsOf(last.stdout, last.file)

\* A report is parsed into IWYU data that holds the lists of another report.
C11_SecondReportParsed ==
    /\ last.op = "complete" /\ last.ok
    /\ last.data.includesToRemove # <<>>
    /\ last.stdout = ReportAdd(last.file)
    /\ iwyuData[last.file].includesToAdd # <<>>

C23_RewriterAfterAnalyzer ==
    /\ [](last.fix # <<>> =>
            /\ last.op = "complete" /\ last.ok /\ last.cb = "fix"
            /\ last.fix = last.stdout
            /\ last.fix = iwyuData[last.file].output)
    /\ [][(last'.fix # <<>> /\ pending' # pending) =>
            /\ pending[last'.file]["fix"] > 0
            /\ pending' = [pending EXCEPT ![last'.file]["fix"] = @ - 1]]_vars
    /\ [][(last'.op = "commandOne"
            /\ getCompileCommand(compileCommandsData, last'.file) = <<>>) =>
            (pending' = pending /\ last'.runs = 0 /\ last'.fix = <<>>)]_vars
    /\ [][(last'.op = "commandOne" /\ last'.runs = 1) =>
            pending' = [pending EXCEPT ![last'.file]["fix"] = @ + 1]]_vars

\* The rewriter is fed the report of the process the command started.
C23_ReportFixed ==
    /\ last.op = "complete" /\ last.ok /\ last.cb = "fix"
    /\ last.fix = ReportRemove(last.file)
    /\ iwyuData[last.file].output = ReportRemove(last.file)

\* C15: when an analyzer process ends with an error, the IWYU data of its file
\* (output, updateTime, the three lists) and the diagnostics published are left
\* as they were, and no scan is made.
C15_FailureChangesNothing ==
    [][(last'.op = "complete" /\ ~last'.ok /\ pending' # pending) =>
          /\ iwyuData'[last'.file] = iwyuData[last'.file]
          /\ iwyuDiagnostics' = iwyuDiagnostics
          /\ ~last'.scan.called]_vars

\* An analyzer process ends with an error when its file has a report and
\* published diagnostics.
C15_FailedAfterReport ==
    /\ last.op = "complete" /\ ~last.ok
    /\ last.data.includesToRemove # <<>>
    /\ iwyuData[last.file].output = ReportRemove(last.file)
    /\ iwyuDiagnostics[last.file].has

\* C16 (checked under FairSpec): the controller does not wedge.  After an
\* analyzer process has ended, well or with an error, the counter running of
\* its file is 0, every refresh that waits for the counter goes on at some
\* time, and no refresh is left waiting.
C16_NoWedge ==
    /\ [](last.op = "complete" => iwyuData[last.file].running = 0)
    /\ \A f \in Files : (f \in waiting) ~> (f \notin waiting)
    /\ \A f \in Files : (Outstanding(f) > 0) ~> (last.op = "complete" /\ last.file = f)

\* After a process of the file has ended with a report, a refresh starts the
\* analyzer again.
C16_RunAfterCompletion ==
    /\ last.op = "refresh" /\ last.runs = 1
    /\ last.data.output # EmptyText
    /\ iwyuData[last.file].running = 0
    /\ Outstanding(last.file) > 0

\* C20: when iwyu.diagnostics.unused_includes is false, update leaves
\* includesToRemove empty and no diagnostic for an unused include is published,
\* while includesToAdd and includesList are filled as with the setting true.
C20_UnusedIncludesOff ==
    (/\ "diagnostics.unused_includes" \in DOMAIN config
     /\ ~config["diagnostics.unused_includes"]
     /\ last.op = "complete" /\ last.ok) =>
        /\ iwyuData[last.file].includesToRemove = <<>>
        /\ \A i \in DOMAIN iwyuDiagnostics[last.file].list :
               iwyuDiagnostics[last.file].list[i].source # IWYU_DIAGNISTIC_UNUSED_HEADER
        /\ iwyuData[last.file].includesToAdd
              = update(NewIwyuData(0), last.stdout, last.file, TRUE, 0).includesToAdd
        /\ iwyuData[last.file].includesList
              = update(NewIwyuData(0), last.stdout, last.file, TRUE, 0).includesList

----------------------------------------------------------------------------
(* Properties of the scanner and of the guard quick fix, checked under     *)
(* ScanSpec.  They are stated on the document of the last scan and on the  *)
(* diagnostics this scan pushed (none when it ended by an exception).      *)

\* The last handler was a refresh that called iwyuDiagnosticsScan.
Scanned == last.op = "refresh" /\ last.scan.called

\* The document a scan read, its diagnostics and the remove list it used.
ScannedDoc == docs[last.file]

ScanDiagnostics == last.scan.diagnostics

ScanToRemove == last.data.includesToRemove

ScanMinSetting == get(config, "diagnostics.scan_min", 100)

\* The document matches the header pattern and the guard template is not empty.
HeaderChecked ==
    /\ headerMatch(get(config, "diagnostics.include_guard_files", "[.](h|hh|hpp|hxx)$"),
                   last.file)
    /\ get(config, "diagnostics.include_guard", "") # ""

\* The diagnostics of a source on a line, and those of a source.
DiagnosticsAt(source, line) ==
    {i \in DOMAIN ScanDiagnostics :
        ScanDiagnostics[i].source = source /\ ScanDiagnostics[i].line = line}

DiagnosticsOf(source) ==
    {i \in DOMAIN ScanDiagnostics : ScanDiagnostics[i].source = source}

\* Line `line` of the scanned document is blank or a //-comment.
BlankOrComment(line) ==
    \/ isEmptyOrWhitespace(ScannedDoc[line + 1])
    \/ StartsWithAt(ScannedDoc[line + 1],
                    firstNonWhitespaceCharacterIndex(ScannedDoc[line + 1]), "//")

\* Line `line` is an #include line whose token is the include of a remove entry.
IncludeToRemove(line) ==
    /\ Group1(INCLUDE_RE(ScannedDoc[line + 1])) # ""
    /\ \E j \in DOMAIN ScanToRemove :
          ScanToRemove[j].include = Group1(INCLUDE_RE(ScannedDoc[line + 1]))

\* The scan read a #pragma once line with no #ifndef line before it.
PragmaOnceSeenFirst ==
    \E l \in last.scan.inspected :
       /\ PRAGMA_ONCE(ScannedDoc[l + 1])
       /\ \A k \in 0..(l - 1) : ~INC_GUARD_IFNDEF(ScannedDoc[k + 1]).m

\* C6: for a header document in which the scan sees #pragma once before any
\* #ifndef, the scan emits none of guard-bad-ifndef, guard-bad-define,
\* guard-missing-ifndef and guard-missing-endif.
C6_PragmaOnceSuppressesGuard ==
    (Scanned /\ HeaderChecked /\ PragmaOnceSeenFirst) =>
        \A i \in DOMAIN ScanDiagnostics :
            ScanDiagnostics[i].source \notin
                {IWYU_DIAGNISTIC_INCLUDE_GUARD_BAD_IFNDEF,
                 IWYU_DIAGNISTIC_INCLUDE_GUARD_BAD_DEFINE,
                 IWYU_DIAGNISTIC_INCLUDE_GUARD_MISSING_IFNDEF,
                 IWYU_DIAGNISTIC_INCLUDE_GUARD_MISSING_ENDIF}

\* The document holds no #ifndef and no #pragma once line, and no #endif line
\* among its last 10 lines.
NoGuardAnywhere ==
    /\ \A l \in 0..(Len(ScannedDoc) - 1) :
          ~INC_GUARD_IFNDEF(ScannedDoc[l + 1]).m /\ ~PRAGMA_ONCE(ScannedDoc[l + 1])
    /\ \A l \in 0..(Len(ScannedDoc) - 1) :
          l > Len(ScannedDoc) - 1 - EndifWindow => ~INC_GUARD_ENDIF(ScannedDoc[l + 1]).m

\* C7: a scan of a header document without any guard emits exactly one
\* guard-missing-ifndef, at line 0, and exactly one guard-missing-endif, at the
\* last line.
C7_MissingGuardBothEnds ==
    (Scanned /\ HeaderChecked /\ NoGuardAnywhere) =>
        /\ Cardinality(DiagnosticsOf(IWYU_DIAGNISTIC_INCLUDE_GUARD_MISSING_IFNDEF)) = 1
        /\ Cardinality(DiagnosticsAt(IWYU_DIAGNISTIC_INCLUDE_GUARD_MISSING_IFNDEF, 0)) = 1
        /\ Cardinality(DiagnosticsOf(IWYU_DIAGNISTIC_INCLUDE_GUARD_MISSING_ENDIF)) = 1
        /\ Cardinality(DiagnosticsAt(IWYU_DIAGNISTIC_INCLUDE_GUARD_MISSING_ENDIF,
                                     Len(ScannedDoc) - 1)) = 1

\* C8: when the quick fix of a guard-missing-ifndef diagnostic has been applied
\* to a header document, the scan of the resulting text emits no diagnostic of
\* the five guard categories.
C8_QuickFixRoundTrip ==
    (/\ Scanned
     /\ phase.fixes > 0
     /\ phase.fixed = IWYU_DIAGNISTIC_INCLUDE_GUARD_MISSING_IFNDEF)
    => \A i \in DOMAIN ScanDiagnostics : ScanDiagnostics[i].source \notin GuardSources

\* C9: on every line of the scan window there is an unused-include diagnostic
\* iff the line is an #include line whose token equals the include of a remove
\* entry, and there is at most one.
C9_UnusedIncludeIffToRemove ==
    Scanned =>
        \A l \in last.scan.inspected :
            /\ Cardinality(DiagnosticsAt(IWYU_DIAGNISTIC_UNUSED_HEADER, l)) <= 1
            /\ DiagnosticsAt(IWYU_DIAGNISTIC_UNUSED_HEADER, l) # {} <=> IncludeToRemove(l)

\* The lines before `line` that are neither blank nor //-comments.
CountedBefore(line) == {k \in 0..(line - 1) : ~BlankOrComment(k)}

\* C10, as stated: an #include line to remove before which there are fewer than
\* scan_min lines that are neither blank nor //-comments is flagged at its
\* line, however many blank or //-comment lines precede it.
C10_BlankLinesNeverCount ==
    Scanned =>
        \A l \in 0..(Len(ScannedDoc) - 1) :
            (IncludeToRemove(l) /\ Cardinality(CountedBefore(l)) < ScanMinSetting)
            => DiagnosticsAt(IWYU_DIAGNISTIC_UNUSED_HEADER, l) # {}

\* C10, amended: blank and //-comment lines extend the window only while they
\* are among the first scan_min lines, so by at most scan_min lines: an
\* #include line to remove at line l >= 1 that only blank or //-comment lines
\* precede is flagged at line l iff l < 2 * scan_min.
C10_BlankLinesExtendByScanMin ==
    Scanned =>
        \A l \in 1..(Len(ScannedDoc) - 1) :
            (IncludeToRemove(l) /\ CountedBefore(l) = {})
            => (DiagnosticsAt(IWYU_DIAGNISTIC_UNUSED_HEADER, l) # {} <=> l < 2 * ScanMinSetting)

\* An #include line beyond the first scan_min lines, after blank or //-comment
\* lines only, has been flagged.
C10_FlaggedBeyondScanMin ==
    /\ Scanned
    /\ \E l \in 1..(Len(ScannedDoc) - 1) :
          /\ l >= ScanMinSetting
          /\ IncludeToRemove(l) /\ CountedBefore(l) = {}
          /\ DiagnosticsAt(IWYU_DIAGNISTIC_UNUSED_HEADER, l) # {}

\* C24: a scan emits no diagnostic of the five guard sources for a document
\* whose name does not match the header pattern, nor for any document when the
\* guard template is empty.
C24_GuardCheckedForHeadersOnly ==
    (/\ Scanned
     /\ \/ \A suffix \in {".h", ".hh", ".hpp", ".hxx"} : ~EndsWith(last.file, suffix)
        \/ get(config, "diagnostics.include_guard", "") = "") =>
        /\ ~last.scan.threw
        /\ DOMAIN ScanDiagnostics = DiagnosticsOf(IWYU_DIAGNISTIC_UNUSED_HEADER)
        /\ iwyuDiagnostics[last.file].list = ScanDiagnostics

\* A source file without any guard is scanned and its unused include flagged.
C24_SourceWithoutGuardScanned ==
    /\ Scanned /\ last.file = SourceFile
    /\ get(config, "diagnostics.include_guard", "") # ""
    /\ NoGuardAnywhere
    /\ ScanDiagnostics # <<>>

\* The scan recorded an #ifndef line as the opening guard and no #pragma once.
IfndefRecorded == last.scan.includeGuardLine >= 0 /\ last.scan.pragmaOnceLine = -1

\* The guard a header scan expects.
ExpectedGuard ==
    getIncludeGuard(get(config, "diagnostics.include_guard", ""), last.file, Directory)

\* The diagnostics of a source on a line whose related location is line `to`.
DiagnosticsRelated(source, line, to) ==
    {i \in DiagnosticsAt(source, line) : ScanDiagnostics[i].related = <<to>>}

\* C25: when a scan recorded an #ifndef as the guard line at line L (no
\* #pragma once seen) and line L+1 exists, it emits guard-bad-define at line
\* L+1, related to line L, exactly when line L+1 is not a #define of the
\* expected identifier.
C25_BadDefineAfterIfndef ==
    (/\ Scanned /\ HeaderChecked /\ IfndefRecorded
     /\ last.scan.includeGuardLine + 1 < Len(ScannedDoc)) =>
        LET L == last.scan.includeGuardLine IN
        /\ DiagnosticsAt(IWYU_DIAGNISTIC_INCLUDE_GUARD_BAD_DEFINE, L + 1)
              = DiagnosticsRelated(IWYU_DIAGNISTIC_INCLUDE_GUARD_BAD_DEFINE, L + 1, L)
        /\ DiagnosticsAt(IWYU_DIAGNISTIC_INCLUDE_GUARD_BAD_DEFINE, L + 1) # {}
              <=> Group2(INC_GUARD_DEFINE(ScannedDoc[L + 2])) # ExpectedGuard

\* C26: every guard-bad-define diagnostic of a scan lies on the line directly
\* after an #ifndef line recorded as the guard, its related location being that
\* line, a line of the document; while no #ifndef is recorded no line -1 is
\* dereferenced, so no scan ends by an exception.
C26_BadDefineRelatedValid ==
    (Scanned /\ HeaderChecked) =>
        /\ ~last.scan.threw
        /\ \A i \in DiagnosticsOf(IWYU_DIAGNISTIC_INCLUDE_GUARD_BAD_DEFINE) :
              /\ IfndefRecorded
              /\ ScanDiagnostics[i].related = <<last.scan.includeGuardLine>>
              /\ ScanDiagnostics[i].line = last.scan.includeGuardLine + 1
              /\ ~lineAtThrows(ScannedDoc, last.scan.includeGuardLine)
              /\ INC_GUARD_IFNDEF(ScannedDoc[last.scan.includeGuardLine + 1]).m

\* The same for the scans that do not end by an exception, and what the guard
\* part emits for the line after the recorded #ifndef when it reads that line.
C26_BadDefineWhenRead ==
    (Scanned /\ HeaderChecked /\ ~last.scan.threw) =>
        /\ \A i \in DiagnosticsOf(IWYU_DIAGNISTIC_INCLUDE_GUARD_BAD_DEFINE) :
              /\ IfndefRecorded
              /\ ScanDiagnostics[i].related = <<last.scan.includeGuardLine>>
              /\ ScanDiagnostics[i].line = last.scan.includeGuardLine + 1
              /\ INC_GUARD_IFNDEF(ScannedDoc[last.scan.includeGuardLine + 1]).m
        /\ (/\ IfndefRecorded
            /\ last.scan.includeGuardLine + 1 \in last.scan.inspected
            /\ ~(/\ last.scan.includeGuardLine + 1 < ScanMinSetting
                 /\ BlankOrComment(last.scan.includeGuardLine + 1))) =>
               (DiagnosticsRelated(IWYU_DIAGNISTIC_INCLUDE_GUARD_BAD_DEFINE,
                                   last.scan.includeGuardLine + 1,
                                   last.scan.includeGuardLine) # {}
                  <=> Group2(INC_GUARD_DEFINE(ScannedDoc[last.scan.includeGuardLine + 2]))
                        # ExpectedGuard)

\* Line `line` is the first #ifndef IDENT line of the scanned document and no
\* #pragma once line precedes it.
FirstIfndef(line) ==
    /\ INC_GUARD_IFNDEF(ScannedDoc[line + 1]).m
    /\ \A k \in 0..(line - 1) :
          ~INC_GUARD_IFNDEF(ScannedDoc[k + 1]).m /\ ~PRAGMA_ONCE(ScannedDoc[k + 1])

\* Line `line` is in the scan window: one of the first scan_min lines, or a
\* line the forward loop read.
InWindow(line) == line < ScanMinSetting \/ line \in last.scan.inspected

\* The opening guard of the scanned document differs from the expected guard.
BadIfndef(line) ==
    FirstIfndef(line) /\ INC_GUARD_IFNDEF(ScannedDoc[line + 1]).g2 # ExpectedGuard

\* C27: a scan emits at most one guard-bad-ifndef; it emits it at the first
\* #ifndef IDENT line of the scan window (no #pragma once before it) iff IDENT
\* differs from the expected guard, and on no later #ifndef line.
C27_FirstIfndefOnly ==
    (Scanned /\ HeaderChecked) =>
        /\ Cardinality(DiagnosticsOf(IWYU_DIAGNISTIC_INCLUDE_GUARD_BAD_IFNDEF)) <= 1
        /\ \A l \in 0..(Len(ScannedDoc) - 1) :
              /\ DiagnosticsAt(IWYU_DIAGNISTIC_INCLUDE_GUARD_BAD_IFNDEF, l) # {} => BadIfndef(l)
              /\ (InWindow(l) /\ BadIfndef(l)) =>
                    DiagnosticsAt(IWYU_DIAGNISTIC_INCLUDE_GUARD_BAD_IFNDEF, l) # {}

\* The same for the scans that do not end by an exception.
C27_FirstIfndefOnlyUnlessThrown ==
    (Scanned /\ HeaderChecked /\ ~last.scan.threw) =>
        /\ Cardinality(DiagnosticsOf(IWYU_DIAGNISTIC_INCLUDE_GUARD_BAD_IFNDEF)) <= 1
        /\ \A l \in 0..(Len(ScannedDoc) - 1) :
              /\ DiagnosticsAt(IWYU_DIAGNISTIC_INCLUDE_GUARD_BAD_IFNDEF, l) # {} => BadIfndef(l)
              /\ (InWindow(l) /\ BadIfndef(l)) =>
                    DiagnosticsAt(IWYU_DIAGNISTIC_INCLUDE_GUARD_BAD_IFNDEF, l) # {}

\* The lines among the last 10 lines of the scanned document that match #endif.
EndifLines ==
    {l \in 0..(Len(ScannedDoc) - 1) :
        l > Len(ScannedDoc) - 1 - 10 /\ INC_GUARD_ENDIF(ScannedDoc[l + 1]).m}

\* The last of the lines of a non-empty set.
LastOf(lines) == CHOOSE l \in lines : \A k \in lines : k <= l

\* C28: when a scan recorded an opening #ifndef guard, it emits guard-bad-endif,
\* related to the opening line, at the last of the last 10 lines that matches
\* #endif iff the identifier after // on that line differs from the expected
\* guard; it emits guard-missing-endif at the last line iff none of the last 10
\* lines matches #endif; it never emits both.
C28_EndifInLastLines ==
    (Scanned /\ HeaderChecked /\ IfndefRecorded) =>
        /\ DiagnosticsOf(IWYU_DIAGNISTIC_INCLUDE_GUARD_MISSING_ENDIF)
              = DiagnosticsAt(IWYU_DIAGNISTIC_INCLUDE_GUARD_MISSING_ENDIF, Len(ScannedDoc) - 1)
        /\ DiagnosticsOf(IWYU_DIAGNISTIC_INCLUDE_GUARD_MISSING_ENDIF) # {} <=> EndifLines = {}
        /\ EndifLines = {} => DiagnosticsOf(IWYU_DIAGNISTIC_INCLUDE_GUARD_BAD_ENDIF) = {}
        /\ EndifLines # {} =>
              /\ DiagnosticsOf(IWYU_DIAGNISTIC_INCLUDE_GUARD_BAD_ENDIF)
                    = DiagnosticsRelated(IWYU_DIAGNISTIC_INCLUDE_GUARD_BAD_ENDIF,
                                         LastOf(EndifLines), last.scan.includeGuardLine)
              /\ DiagnosticsOf(IWYU_DIAGNISTIC_INCLUDE_GUARD_BAD_ENDIF) # {}
                    <=> INC_GUARD_ENDIF(ScannedDoc[LastOf(EndifLines) + 1]).g2 # ExpectedGuard
        /\ ~(/\ DiagnosticsOf(IWYU_DIAGNISTIC_INCLUDE_GUARD_BAD_ENDIF) # {}
             /\ DiagnosticsOf(IWYU_DIAGNISTIC_INCLUDE_GUARD_MISSING_ENDIF) # {})

\* A header of more than 10 lines is scanned whose #endif, not on the last
\* line, names another guard: guard-bad-endif is emitted there.
C28_BadEndifBeforeLastLine ==
    /\ Scanned /\ HeaderChecked /\ IfndefRecorded
    /\ Len(ScannedDoc) > 10
    /\ EndifLines # {}
    /\ LastOf(EndifLines) < Len(ScannedDoc) - 1
    /\ DiagnosticsAt(IWYU_DIAGNISTIC_INCLUDE_GUARD_BAD_ENDIF, LastOf(EndifLines)) # {}

\* A header of more than 10 lines is scanned whose only #endif lies before the
\* last 10 lines: guard-missing-endif is emitted at the last line.
C28_EndifBeforeLastLines ==
    /\ Scanned /\ HeaderChecked /\ IfndefRecorded
    /\ \E l \in 0..(Len(ScannedDoc) - 1) : INC_GUARD_ENDIF(ScannedDoc[l + 1]).m
    /\ DiagnosticsAt(IWYU_DIAGNISTIC_INCLUDE_GUARD_MISSING_ENDIF, Len(ScannedDoc) - 1) # {}

\* The first non-whitespace character of line `line` of the scanned document
\* is #.
HashLine(line) ==
    Ch(ScannedDoc[line + 1], firstNonWhitespaceCharacterIndex(ScannedDoc[line + 1])) = "#"

\* The lines among the first scan_min lines that the scan read and that are
\* blank or //-comments, and those that start with #.
SkippedLines == {l \in last.scan.inspected : l < ScanMinSetting /\ BlankOrComment(l)}

DirectiveLines == {l \in last.scan.inspected : l < ScanMinSetting /\ HashLine(l)}

\* No include line found at or after line scan_min has moved the window end.
NoIncludeExtension ==
    \/ ScanToRemove = <<>>
    \/ \A l \in last.scan.inspected :
          l >= ScanMinSetting => Group1(INCLUDE_RE(ScannedDoc[l + 1])) = ""

\* What the iteration does for a line that starts with # among the first
\* scan_min lines, unless the scan ended by an exception: the include and the
\* opening guard on it are checked.
DirectiveLinesChecked ==
    ~last.scan.threw =>
        \A l \in DirectiveLines :
            /\ IncludeToRemove(l) => DiagnosticsAt(IWYU_DIAGNISTIC_UNUSED_HEADER, l) # {}
            /\ (HeaderChecked /\ BadIfndef(l)) =>
                  DiagnosticsAt(IWYU_DIAGNISTIC_INCLUDE_GUARD_BAD_IFNDEF, l) # {}

ScanMoreSetting == get(config, "diagnostics.scan_more", 10)

\* The lines the scan read on which it found an #include.
IncludeLines == {l \in last.scan.inspected : Group1(INCLUDE_RE(ScannedDoc[l + 1])) # ""}

\* The window end is at least line + 1 + scan_more, and the scan_more lines
\* after `line`, as far as the document has them, have been read.
ScannedMoreAfter(line) ==
    /\ last.scan.scanMax >= line + 1 + ScanMoreSetting
    /\ \A k \in (line + 1)..(line + ScanMoreSetting) :
          k < Len(ScannedDoc) => k \in last.scan.inspected

\* C30: when the remove list is not empty, after every #include line found at
\* a line L of the scan window the window end is at least L + 1 + scan_more and
\* the scan_more lines after L that the document has are scanned, also for an
\* include found at L < scan_min.
C30_ScanMoreAfterEveryInclude ==
    (Scanned /\ ScanToRemove # <<>> /\ ~last.scan.threw) =>
        \A l \in IncludeLines : ScannedMoreAfter(l)

\* The same for the includes found at or after line scan_min.
C30_ScanMoreAfterLaterInclude ==
    (Scanned /\ ScanToRemove # <<>> /\ ~last.scan.threw) =>
        \A l \in IncludeLines : l >= ScanMinSetting => ScannedMoreAfter(l)

FullLineSetting == get(config, "diagnostics.full_line_squiggles", TRUE)

\* The 0-based column of the first # of a line, and the 0-based column after
\* the include token that INCLUDE_RE matches on it.
HashColumn(text) == FindCh(text, "#", 1) - 1

TokenEnd(text) == INCLUDE_RE(text).e - 1

\* C32: the range of an unused-include diagnostic is, in full-line mode, column
\* 0 to the length of its line; otherwise it starts at the column of the # of
\* the line and ends at the end of the matched include token, and is not empty.
C32_UnusedIncludeRange ==
    Scanned =>
        \A i \in DiagnosticsOf(IWYU_DIAGNISTIC_UNUSED_HEADER) :
            LET d == ScanDiagnostics[i]
                text == ScannedDoc[d.line + 1]
            IN  /\ INCLUDE_RE(text).m
                /\ FullLineSetting => d.col = 0 /\ d.end = Len(text)
                /\ ~FullLineSetting =>
                      /\ d.col = HashColumn(text)
                      /\ d.end = TokenEnd(text)
                      /\ d.end - d.col > 0

\* An indented include line with text after the token is flagged from its # to
\* the end of the token, full-line mode being off.
C32_IndentedIncludeFlagged ==
    /\ Scanned /\ ~FullLineSetting
    /\ \E i \in DiagnosticsOf(IWYU_DIAGNISTIC_UNUSED_HEADER) :
          /\ ScanDiagnostics[i].col > 0
          /\ ScanDiagnostics[i].end < Len(ScannedDoc[ScanDiagnostics[i].line + 1])

----------------------------------------------------------------------------
(* Properties of the functions, checked under CallSpec.                    *)

\* What the characters before position i make of the character at i: "plain"
\* when it has its meaning, "single" or "double" inside a quote region (which
\* its closing quote ends), "escaped" after a backslash that has its meaning.
RECURSIVE ModeAt(_, _)
ModeAt(cmd, i) ==
    IF i <= 1 THEN "plain"
    ELSE LET before == ModeAt(cmd, i - 1)
             c == Ch(cmd, i - 1)
         IN  CASE before = "escaped" -> "plain"
               [] before = "single" -> IF c = "'" THEN "plain" ELSE "single"
               [] before = "double" -> IF c = "\"" THEN "plain" ELSE "double"
               [] OTHER -> IF c = "'" THEN "single"
                           ELSE IF c = "\"" THEN "double"
                           ELSE IF c = "\\" THEN "escaped"
                           ELSE "plain"

\* A space that splits: outside the quote regions and not escaped.
Splits(cmd, i) == Ch(cmd, i) = " " /\ ModeAt(cmd, i) = "plain"

\* The positions at which a maximal substring without a splitting space starts.
TokenStarts(cmd) ==
    {a \in 1..Len(cmd) : ~Splits(cmd, a) /\ (a = 1 \/ Splits(cmd, a - 1))}

TokenAt(cmd, a) ==
    SubSeq(cmd, a, CHOOSE b \in a..Len(cmd) :
                      /\ \A k \in a..b : ~Splits(cmd, k)
                      /\ (b = Len(cmd) \/ Splits(cmd, b + 1)))

\* The reference tokenizer: the tokens in the order of their positions.
Tokens(cmd) ==
    LET starts == TokenStarts(cmd)
    IN  [j \in 1..Cardinality(starts) |->
            TokenAt(cmd, CHOOSE a \in starts : Cardinality({x \in starts : x < a}) = j - 1)]

\* C12: parseCommandLine gives, for every command line, the tokens of the
\* reference tokenizer: the maximal substrings between the spaces that are
\* neither in a quote region nor escaped by a backslash, quotes and backslashes
\* kept, no backslash escaping inside a quote region, no empty token.
C12_ParseIsReference ==
    (call.op = "parseCommandLine" /\ call.done) =>
        /\ call.result = Tokens(call.args[1])
        /\ \A j \in DOMAIN call.result : call.result[j] # ""

\* A command line with an escaped space, a quote region that holds a space and a
\* backslash, and a splitting space is parsed.
C12_QuotedAndEscapedParsed ==
    /\ call.op = "parseCommandLine" /\ call.done
    /\ call.args[1] \in {"\\ a", "' \\'", "a a"}
    /\ Len(call.result) = IF call.args[1] = "a a" THEN 2 ELSE 1

\* s with every occurrence of pattern at or after position i replaced.
RECURSIVE ReplaceAllFrom(_, _, _, _)
ReplaceAllFrom(s, pattern, replacement, i) ==
    IF i > Len(s) THEN ""
    ELSE IF StartsWithAt(s, i, pattern)
    THEN replacement \o ReplaceAllFrom(s, pattern, replacement, i + Len(pattern))
    ELSE Ch(s, i) \o ReplaceAllFrom(s, pattern, replacement, i + 1)

\* The path of the file relative to the build directory it lies in.
RelativeTo(fileName, directory) ==
    LET dir == IF EndsWith(directory, "/") THEN directory ELSE directory \o "/"
    IN  IF StartsWithAt(fileName, 1, dir) THEN From(fileName, Len(dir) + 1) ELSE fileName

\* The template with each ${file} replaced by token and each ${FILE} by its
\* upper-case form.
GuardOf(template, token) ==
    ReplaceAllFrom(ReplaceAllFrom(template, "${file}", token, 1),
                   "${FILE}", toUpperCase(token), 1)

\* C13: for a template that is not empty getIncludeGuard returns the template
\* with each placeholder ${file} replaced by the path of the file relative to
\* the build directory, every character outside [A-Za-z0-9_] made "_", and each
\* placeholder ${FILE} by the upper-case form of it, all other characters as
\* they are; for the empty template it returns "".
C13_EachPlaceholderReplaced ==
    (call.op = "getIncludeGuard" /\ call.done /\ call.args[3] # "") =>
        call.result = IF call.args[1] = "" THEN ""
                      ELSE GuardOf(call.args[1],
                                   SanitizeFrom(RelativeTo(call.args[2], call.args[3]), 1))

\* The same for the templates that hold each placeholder at most once.
C13_FirstPlaceholderReplaced ==
    (/\ call.op = "getIncludeGuard" /\ call.done /\ call.args[3] # ""
     /\ call.args[1] \notin {"${file}_${file}", "${FILE}${FILE}"}) =>
        call.result = IF call.args[1] = "" THEN ""
                      ELSE GuardOf(call.args[1],
                                   SanitizeFrom(RelativeTo(call.args[2], call.args[3]), 1))

----------------------------------------------------------------------------
(* Properties of the index, checked under IndexSpec.                       *)

\* The absolute path is no key of the index, or matches the ignore pattern, or
\* there is an only pattern and the path does not match it.
NotFound(data, path) ==
    \/ path \notin DOMAIN data.compileCommands
    \/ (data.ignoreRe # "" /\ match(path, data.ignoreRe))
    \/ (data.onlyRe # "" /\ ~match(path, data.onlyRe))

\* C14: getCompileCommand returns null exactly when the absolute path of the
\* file is no key of the index, or matches the ignore pattern, or an only
\* pattern is set and the path does not match it; otherwise it returns the
\* entry of the path; it changes neither the index nor the IWYU data of any file.
C14_ResolveIsLookup ==
    [][(call'.op = "getCompileCommand" /\ call'.done) =>
          /\ UNCHANGED <<compileCommandsData, iwyuData>>
          /\ (call'.result = <<>>) <=> NotFound(compileCommandsData, Absolute(call'.args[1]))
          /\ call'.result # <<>> =>
                call'.result = <<compileCommandsData.compileCommands[Absolute(call'.args[1])]>>]_vars

\* A file of the index that the only pattern keeps out is looked up, by its
\* relative name or by its path.
C14_KeptOutByOnly ==
    /\ call.op = "getCompileCommand" /\ call.done
    /\ Absolute(call.args[1]) \in DOMAIN compileCommandsData.compileCommands
    /\ compileCommandsData.onlyRe # ""
    /\ compileCommandsData.ignoreRe = ""
    /\ call.result = <<>>

\* C17: when activation or a later check of updateCompileCommands finds the
\* compilation database missing or not parsable, the index holds no entries
\* afterwards and the file of the event resolves to null.
C17_NoEntriesWithoutDatabase ==
    (/\ call.done /\ call.op \in {"activate", "resolve"} /\ ~call.threw
     /\ call.found \in {"missing", "unparsable"}) =>
        /\ DOMAIN compileCommandsData.compileCommands = {}
        /\ call.result = <<>>

\* C18: the error message is shown exactly once for each path found bad
\* (missing or not parsable) so far.
C18_MessagePerBadPath ==
    \A path \in errors.bad :
        Cardinality({i \in DOMAIN errors.shown : errors.shown[i] = path}) = 1

\* C19: a pattern setting that is no regular expression does not make
\* activation or the refresh event that builds the index raise an exception.
C19_InvalidPatternHandled ==
    call.done => ~call.threw

\* What compileCommandsJson() resolves to in the current state, and whether its
\* path or modification time differs from the values the index records.
Resolved == compileCommandsJson(config, errors, fileSystem)

ResolvedDiffers ==
    \/ Resolved.path # compileCommandsData.compileCommandsJsonPath
    \/ Resolved.mtimeMs # compileCommandsData.mtimeMs

\* The step is the start of a refresh event: updateCompileCommands is called.
ResolveStep == call'.op = "resolve" /\ UNCHANGED <<fileSystem, config>>

\* C35: updateCompileCommands replaces the index by a newly built one iff the
\* resolved path of the database or its modification time differs from the
\* values the index records; otherwise the index and the IWYU data of every
\* entry stay as they are; the new index is built whole from the database.
C35_RebuiltIffChanged ==
    [][ResolveStep =>
          /\ ResolvedDiffers <=> compileCommandsData' # compileCommandsData
          /\ ~ResolvedDiffers => UNCHANGED <<compileCommandsData, iwyuData>>
          /\ ResolvedDiffers =>
                compileCommandsData'
                   = CompileCommandsData(config, fileSystem, Resolved.path, Resolved.mtimeMs)]_vars

\* The same for the calls that find the database and whose patterns are
\* regular expressions.
C35_RebuiltIffChangedWhenFound ==
    [][(ResolveStep /\ Resolved.path # "" /\ ~PatternThrows(config)) =>
          /\ ResolvedDiffers <=> compileCommandsData' # compileCommandsData
          /\ ~ResolvedDiffers => UNCHANGED <<compileCommandsData, iwyuData>>
          /\ ResolvedDiffers =>
                compileCommandsData'
                   = CompileCommandsData(config, fileSystem, Resolved.path, Resolved.mtimeMs)]_vars

----------------------------------------------------------------------------
(* Properties of the code actions, checked under CallSpec.                 *)

\* The actions of the result made for diagnostic i of the context.
ActionsOf(result, diagnostics, i) ==
    {k \in DOMAIN result : result[k].of = i /\ result[k].diagnostics = <<diagnostics[i]>>}

\* The selection holds the range of the diagnostic: it starts at or before its
\* start and ends at or after its end.
Selected(range, diagnostic) ==
    /\ ~(range.line > diagnostic.line)
    /\ (range.line = diagnostic.line => range.col <= diagnostic.col)
    /\ ~(range.endLine < diagnostic.line)
    /\ (range.endLine = diagnostic.line => range.endCol >= diagnostic.end)

----------------------------------------------------------------------------
(* Properties of the report parser, checked under CallSpec on the calls of *)
(* update with a new IwyuData.                                             *)

UpdateCalled == call.op = "update" /\ call.done

\* The lines of the report parsed, with positions from 1.
Report == call.args[1]

\* The section a marker line for the file opens, "" for any other line.
MarkerOf(line) ==
    IF line = call.args[2] \o " should add these lines:" THEN "add"
    ELSE IF line = call.args[2] \o " should remove these lines:" THEN "remove"
    ELSE IF line = "The full include-list for " \o call.args[2] \o ":" THEN "list"
    ELSE ""

\* The section line i is read in: that of the last marker line before it when
\* no blank line lies between, "unused" otherwise.
SectionAt(i) ==
    LET before == {j \in 1..(i - 1) : Report[j] = "" \/ MarkerOf(Report[j]) # ""}
    IN  IF before = {} THEN "unused"
        ELSE IF Report[LastOf(before)] = "" THEN "unused"
        ELSE MarkerOf(Report[LastOf(before)])

\* Line i is a content line: neither a marker nor blank.
Content(i) == Report[i] # "" /\ MarkerOf(Report[i]) = ""

\* Line i as it is looked at: without its "- " in the remove section.
Stripped(i) == IF SectionAt(i) = "remove" THEN From(Report[i], 3) ELSE Report[i]

\* Line i may be recorded: a content line of an open section, in the remove
\* section with unused-include diagnostics enabled and the prefix "- ".
Eligible(i) ==
    /\ Content(i)
    /\ SectionAt(i) # "unused"
    /\ SectionAt(i) = "remove" => call.args[3] /\ StartsWithAt(Report[i], 1, "- ")

\* The lines of the report from i on that are recorded into the list of
\* section, as they are looked at.
RECURSIVE LinesRecorded(_, _)
LinesRecorded(i, section) ==
    IF i > Len(Report) THEN <<>>
    ELSE (IF Eligible(i) /\ SectionAt(i) = section /\ INCLUDE_RE(Stripped(i)).m
          THEN <<Stripped(i)>> ELSE <<>>) \o LinesRecorded(i + 1, section)

\* The lines of a list of includes.
LinesOf(list) == [i \in DOMAIN list |-> list[i].line]

\* C33: a content line of a report is recorded only into the list of the
\* section opened by the last marker line before it, and only when no blank
\* line lies between; the lines read in the neutral state are not recorded; a
\* report without marker lines gives three empty lists.
C33_SectionsOfReport ==
    UpdateCalled =>
        /\ LinesOf(call.result.includesToAdd) = LinesRecorded(1, "add")
        /\ LinesOf(call.result.includesToRemove) = LinesRecorded(1, "remove")
        /\ LinesOf(call.result.includesList) = LinesRecorded(1, "list")
        /\ (\A i \in DOMAIN Report : MarkerOf(Report[i]) = "") =>
              /\ call.result.includesToAdd = <<>>
              /\ call.result.includesToRemove = <<>>
              /\ call.result.includesList = <<>>

\* A report is parsed in which an include line of a section is recorded and an
\* include line after the blank line that ends the section is not.
C33_IncludeAfterBlankDropped ==
    /\ UpdateCalled
    /\ \E i \in DOMAIN Report :
          /\ SectionAt(i) = "unused" /\ INCLUDE_RE(Report[i]).m
          /\ \E j \in 1..(i - 1) : SectionAt(j) = "add" /\ INCLUDE_RE(Report[j]).m
    /\ Len(call.result.includesToAdd) = 1

\* The line holds the text #include, white space and an include in <> or ""
\* at some position.
ContainsInclude(line) ==
    \E k \in 1..Len(line) :
        StartsWithAt(line, k, "#include") /\ INCLUDE_RE(From(line, k)).m

\* The number of lines of the report that may be recorded into the list of
\* section and hold an include at some position.
HoldingInclude(section) ==
    Cardinality({i \in DOMAIN Report :
                    Eligible(i) /\ SectionAt(i) = section /\ ContainsInclude(Stripped(i))})

\* C34, as stated: in an open section a line (in the remove section the line
\* without its "- ", lines without it being dropped) is recorded iff it holds an
\* include token at some position, and the include recorded is the text in <>
\* or "".
C34_EmbeddedIncludeRecorded ==
    UpdateCalled =>
        /\ Len(call.result.includesToAdd) = HoldingInclude("add")
        /\ Len(call.result.includesToRemove) = HoldingInclude("remove")
        /\ Len(call.result.includesList) = HoldingInclude("list")

\* The entries update records for the lines from i on into the list of section:
\* those that INCLUDE_RE matches, from their start.
RECURSIVE EntriesRecorded(_, _)
EntriesRecorded(i, section) ==
    IF i > Len(Report) THEN <<>>
    ELSE (IF Eligible(i) /\ SectionAt(i) = section /\ INCLUDE_RE(Stripped(i)).m
          THEN <<[include |-> INCLUDE_RE(Stripped(i)).g1, line |-> Stripped(i)]>>
          ELSE <<>>) \o EntriesRecorded(i + 1, section)

\* The include of every entry is a text in <> or "" that its line holds.
IncludesLiteral(list) ==
    \A i \in DOMAIN list :
        /\ Len(list[i].include) >= 2
        /\ \/ Ch(list[i].include, 1) = "<" /\ Ch(list[i].include, Len(list[i].include)) = ">"
           \/ Ch(list[i].include, 1) = "\"" /\ Ch(list[i].include, Len(list[i].include)) = "\""
        /\ IndexOf(list[i].line, list[i].include) > 0

\* C34, amended: in an open section a line (in the remove section the line
\* without its "- ", lines without it being dropped) is recorded iff it starts,
\* after optional white space, with an include directive, that is iff
\* INCLUDE_RE, anchored at the start of the line, matches it; the include
\* recorded is the text in <> or "" of the directive.
C34_LeadingIncludeRecorded ==
    UpdateCalled =>
        /\ call.result.includesToAdd = EntriesRecorded(1, "add")
        /\ call.result.includesToRemove = EntriesRecorded(1, "remove")
        /\ call.result.includesList = EntriesRecorded(1, "list")
        /\ IncludesLiteral(call.result.includesToAdd)
        /\ IncludesLiteral(call.result.includesToRemove)
        /\ IncludesLiteral(call.result.includesList)

\* A report is parsed whose remove section records a line without its "- " and
\* one of whose open sections drops a line that holds an include after other
\* text.
C34_EmbeddedIncludeDropped ==
    /\ UpdateCalled
    /\ \E i \in DOMAIN call.result.includesToRemove :
          call.result.includesToRemove[i].include = "<b>"
    /\ \E i \in DOMAIN Report :
          /\ Eligible(i) /\ ContainsInclude(Stripped(i)) /\ ~INCLUDE_RE(Stripped(i)).m

----------------------------------------------------------------------------
(* Properties of the output filter, checked under CallSpec on the calls of *)
(* iwyuRunCallback.                                                        *)

\* iwyuRunCallback has been called with a filter that is a regular expression.
FilterApplied ==
    /\ call.op = "iwyuRunCallback" /\ call.done
    /\ call.args[3] # "" /\ call.args[3] # "("

\* The text after "#include" at position k of the line holds the filter.
FilterAfter(line, k) ==
    /\ StartsWithAt(line, k, "#include")
    /\ \E j \in (k + Len("#include"))..Len(line) : StartsWithAt(line, j, call.args[3])

\* Line i of the output of the analyzer matches #include.*(F).
Removed(i) == \E k \in 1..Len(call.args[1][i]) : FilterAfter(call.args[1][i], k)

\* The lines of the output from i on that do not match, in their order.
RECURSIVE KeptFrom(_)
KeptFrom(i) ==
    IF i > Len(call.args[1]) THEN <<>>
    ELSE (IF Removed(i) THEN <<>> ELSE <<call.args[1][i]>>) \o KeptFrom(i + 1)

\* The include of line i, without the "- " of a line of the remove section.
IncludeOf(i) ==
    Group1(INCLUDE_RE(IF StartsWithAt(call.args[1][i], 1, "- ")
                      THEN From(call.args[1][i], 3) ELSE call.args[1][i]))

\* The includes of the three lists of the data.
IncludesIn(data) ==
    {data.includesToAdd[i].include : i \in DOMAIN data.includesToAdd}
    \cup {data.includesToRemove[i].include : i \in DOMAIN data.includesToRemove}
    \cup {data.includesList[i].include : i \in DOMAIN data.includesList}

\* The filter takes the lines that match out of the text that is stored and
\* handed on, and parsed.
FilteredTextUsed ==
    /\ ~call.threw
    /\ call.result.output = Joined(KeptFrom(1))
    /\ call.result.data.output = call.result.output
    /\ call.result.data
          = update(NewIwyuData(0), Joined(KeptFrom(1)), call.args[2], TRUE, call.args[5])

LinesIn(data) ==
    Range(LinesOf(data.includesToAdd)) \cup Range(LinesOf(data.includesToRemove))
    \cup Range(LinesOf(data.includesList))

----------------------------------------------------------------------------
(* Properties of closed documents, checked under Spec.                     *)

\* The document of the last event has just been closed, and the analyzer now
\* completes an invocation issued for it before the close.
CompletesAfterClose ==
    /\ last.op = "close"
    /\ pending[last.file]["scan"] > 0
    /\ last'.op = "complete" /\ last'.file = last.file /\ last'.cb = "scan"

\* C37: once a document is closed its diagnostics are removed and stay
\* removed: the completion callback of an invocation of the analyzer issued
\* for the document before the close publishes no diagnostics for it.
C37_ClosedStaysRemoved ==
    [][CompletesAfterClose =>
           /\ ~iwyuDiagnostics[last.file].has
           /\ ~iwyuDiagnostics'[last.file].has]_vars

\* The close itself removes the entry of the document.
C37_CloseRemovesEntry == last.op = "close" => iwyuDiagnostics[last.file] = NoDiagnostics

----------------------------------------------------------------------------
(* Properties of the replaced index, checked under RebuildSpec.            *)

\* The step replaces the index.
Rebuilds == compileCommandsData' # compileCommandsData

\* An AnalysisState with no output and empty lists.
FreshState(d) ==
    /\ d.output = EmptyText
    /\ d.includesToAdd = <<>> /\ d.includesToRemove = <<>> /\ d.includesList = <<>>

\* The step is a refresh of a document.
RefreshStep == last'.op = "refresh" /\ now' = now

\* The step is the completion of a process started for an entry of the
\* replaced index g.
CompletesReplaced(g) ==
    /\ Len(replaced') = Len(replaced)
    /\ g \in DOMAIN replaced
    /\ replaced'[g].pending # replaced[g].pending

\* C38: after the index is rebuilt every entry owns a fresh AnalysisState; the
\* next refresh of a file whose entry is fresh starts the analyzer, whatever
\* the throttle interval; the completion callback of an invocation issued
\* before the rebuild updates the state of the replaced entry only, never the
\* state of an entry of the new index.
C38_FreshEntriesAfterRebuild ==
    [][/\ Rebuilds => \A f \in Files :
                          /\ FreshState(iwyuData'[f])
                          /\ iwyuData'[f].updateTime = now
       /\ (RefreshStep /\ (Rebuilds \/ FreshState(iwyuData[last'.file]))) =>
              /\ last'.runs = 1
              /\ pending'[last'.file]["scan"]
                    = (IF Rebuilds THEN 0 ELSE pending[last'.file]["scan"]) + 1
              /\ iwyuDiagnostics' = iwyuDiagnostics
       /\ \A g \in DOMAIN replaced :
              CompletesReplaced(g) =>
                  /\ iwyuData' = iwyuData
                  /\ \A h \in DOMAIN replaced :
                        \A f \in Files :
                           replaced'[h].iwyuData[f] # replaced[h].iwyuData[f]
                              => h = g /\ f = last'.file]_vars

\* The analyzer started before the index was replaced has reported for a
\* file after the replacement: the replaced entry holds the report, the new
\* entry is fresh within the throttle interval, and its analyzer runs.
C38_ReplacedEntryUpdated ==
    \E g \in DOMAIN replaced :
       \E f \in Files :
          /\ last.op = "complete" /\ last.file = f /\ last.stdout = ReportRemove(f)
          /\ replaced[g].iwyuData[f].output = ReportRemove(f)
          /\ replaced[g].pending[f]["scan"] = 0
          /\ FreshState(iwyuData[f])
          /\ iwyuData[f].updateTime + get(config, "diagnostics.iwyu_interval", 1000) > now
          /\ pending[f]["scan"] = 1

----------------------------------------------------------------------------
(* Properties of the guard quick fix, checked under ScanSpec.              *)

\* The line has text and names none of the directives of an include guard.
NoGuardDirective(text) ==
    /\ text # ""
    /\ IndexOf(text, "ifndef") = 0
    /\ IndexOf(text, "define") = 0
    /\ IndexOf(text, "endif") = 0

\* The step applies the quick fix of the guard-bad-define diagnostic d of the
\* scanned document, which is placed on a line that is no guard directive.
FixesBadDefine(d) ==
    /\ last'.op = "quickfix"
    /\ last'.source = IWYU_DIAGNISTIC_INCLUDE_GUARD_BAD_DEFINE
    /\ d.source = IWYU_DIAGNISTIC_INCLUDE_GUARD_BAD_DEFINE
    /\ NoGuardDirective(docs[phase.file][d.line + 1])

\* C39: a guard quick fix removes no text of a line that is not an #ifndef,
\* #define or #endif directive: for a guard-bad-define diagnostic on a line
\* that is not a #define the expected #define line is inserted, and the text
\* of the line is still in the document after the edit.
C39_BadDefineFixKeepsLine ==
    [][\A i \in DOMAIN iwyuDiagnostics[phase.file].list :
          FixesBadDefine(iwyuDiagnostics[phase.file].list[i]) =>
              /\ docs[phase.file][iwyuDiagnostics[phase.file].list[i].line + 1]
                    \in Range(docs'[phase.file])
              /\ ("#define " \o ExpectedGuard) \in Range(docs'[phase.file])]_vars

\* The quick fix writes the expected #define on the line of the diagnostic.
C39_BadDefineFixWritesDefine ==
    [][\A i \in DOMAIN iwyuDiagnostics[phase.file].list :
          FixesBadDefine(iwyuDiagnostics[phase.file].list[i]) =>
              /\ Len(docs'[phase.file]) = Len(docs[phase.file])
              /\ docs'[phase.file][iwyuDiagnostics[phase.file].list[i].line + 1]
                    = "#define " \o ExpectedGuard]_vars

====
